---- MODULE Spec2Model ----
(***************************************************************************)
(* State-machine model of the registry servers of registry.express:        *)
(*   - the static server    scripts/server.cjs  (with scripts/git-sync.cjs *)
(*     and the build child process scripts/build.js), and                  *)
(*   - the dynamic server   scripts/dynamic-server.js (with the GitHub     *)
(*     source module github-source.js).                                    *)
(* One behaviour is one run of one of the two programs; the variable       *)
(* `program` says which.  Each Node.js callback is one atomic action up to *)
(* its first await; the build child process is a separate OS process whose *)
(* steps interleave with the server's callbacks.                           *)
(***************************************************************************)
EXTENDS Integers, Sequences, FiniteSets, TLC

\* ------------------------------------------------------------------ bounds
\* Number of commits the upstream branch goes through.
MaxCommit == 2
\* Number of build passes the static server starts in one run.
MaxPasses == 2
\* Number of refresh passes the dynamic server starts in one run (the first
\* is the one main() awaits before it listens).
MaxRefreshes == 3
\* Number of versions of the local servers/ directory.
MaxEdit == 2

\* -------------------------------------------------------------- constants
\* git-sync.cjs:41  this._lastCommitHash = null
NoCommit == 0
\* git-sync.cjs:226 / dynamic-server.js:42   lastBuild: null, lastRefresh: null
NoTime == 0
\* A time before the run started (a marker persisted by an earlier run).
PriorTime == NoTime - 1

VARIABLES
    program,      \* "static" (server.cjs) or "dynamic" (dynamic-server.js)
    isRemote,     \* GitSync.isRemote: MCP_REGISTRY_REPO is set
    secretSet,    \* MCP_WEBHOOK_SECRET is set to a non-empty string
    mainPc,       \* position of main(): "start", "building", "serving", "exited",
                  \* or "blocked" inside an execSync that does not return
    upstream,     \* head commit of the tracked branch on the remote
    gitSync,      \* GitSync: [lastCommitHash, originHead]
    serversTree,  \* content version of the local servers/ directory
    isBuilding,   \* server.cjs: let isBuilding
    child,        \* the build child process: [pc, read, head, written]
    inFlight,     \* number of build child processes / refresh passes alive
    dist,         \* the dist directory: [exists, files]
    buildCache,   \* BuildCache._cache: [lastCommit, lastBuild]
    waiter,       \* the caller awaiting the pass in flight: [op, busy]
    passes,       \* passes started so far (also the logical clock)
    passInfo,     \* history: [outcome, before] of the latest pass
    built,        \* history: [src, head] of the passes that succeeded
    resp,         \* what the step just taken answered (NoResp: no request)
    serverCache,  \* dynamic-server.js: serverCache [servers, lastRefresh, refreshing]
    pass,         \* the call of fetchServersFromGitHub in flight: [pc, next, servers]
    source,       \* build(options): "local" (--local) or "github" (useGitHub)
    rawFiles,     \* the JSON files under servers/, parsed, in discovery order
    entries,      \* build.js / github-source.js: servers, the entries loaded
    outDir,       \* the dist directory written from them: [exists, files]
    stage,        \* "idle", "start", "loaded", "built", "failed", "crashed"
    answer,       \* the answer to the request just made: [status, body]
    outputFile,   \* import.js: the file at outputPath, parsed, or NoTarget
    priorFile,    \* the file at outputPath before the last import
    imported,     \* the last import: [serverName, versionsData, note]
    merged,       \* the last mergeVersions call: [existing, incoming, result]
    imports,      \* number of imports run
    builds        \* build.js --watch: the calls of build() made, [pc, read, written]

staticVars == <<isRemote, secretSet, gitSync, serversTree, isBuilding, child,
                dist, buildCache, waiter>>
staticOnly == <<isRemote, secretSet, gitSync, serversTree, isBuilding, child,
                dist, buildCache>>
dynamicVars == <<serverCache, pass>>
registryVars == <<source, rawFiles, entries, outDir, stage, answer>>
importVars == <<outputFile, priorFile, imported, merged, imports>>
watchVars == <<builds>>
vars == <<program, mainPc, upstream, inFlight, passes, passInfo, built, resp,
          staticVars, dynamicVars, registryVars, importVars, watchVars>>

\* ============================================================ git-sync.cjs

\* GitSync.branch (git-sync.cjs:26): the tracked branch, default 'main'.
trackedBranch == <<"main">>

\* GitSync.hasUpdates (git-sync.cjs:107-124): fetch origin and compare the
\* remote head with the tracked commit; any git failure gives false.
hasUpdates(gs, fetchOk) ==
    IF ~isRemote \/ gs.lastCommitHash = NoCommit
    THEN [gs |-> gs, res |-> FALSE]
    ELSE IF ~fetchOk
    THEN [gs |-> gs, res |-> FALSE]
    ELSE [gs |-> [gs EXCEPT !.originHead = upstream],
          res |-> gs.lastCommitHash # upstream]

\* GitSync.pull (git-sync.cjs:130-143): reset --hard origin/<branch>, then
\* rev-parse HEAD; no fetch.  A git failure gives false and changes nothing.
pull(gs, resetOk) ==
    IF ~isRemote
    THEN [gs |-> gs, res |-> FALSE]
    ELSE IF ~resetOk
    THEN [gs |-> gs, res |-> FALSE]
    ELSE [gs |-> [gs EXCEPT !.lastCommitHash = gs.originHead], res |-> TRUE]

\* GitSync.refresh (git-sync.cjs:184-192).
refresh(gs, fetchOk, resetOk) ==
    IF ~isRemote
    THEN [gs |-> gs, res |-> FALSE]
    ELSE LET h == hasUpdates(gs, fetchOk)
         IN  IF h.res
             THEN [gs |-> pull(h.gs, resetOk).gs, res |-> TRUE]
             ELSE [gs |-> h.gs, res |-> FALSE]

\* BuildCache.needsRebuild (git-sync.cjs:242-245).
needsRebuild(cache, currentCommit) ==
    IF currentCommit = NoCommit THEN TRUE
    ELSE cache.lastCommit # currentCommit

\* BuildCache.markBuilt (git-sync.cjs:251-256).
markBuilt(commitHash, now) ==
    [lastCommit |-> commitHash, lastBuild |-> now]

\* ============================================== the dist directory (build.js)

\* What a build pass read: the local servers/ directory at a version.  A
\* file written by a pass is identified with what the pass read.
NoSource == [kind |-> "none", id |-> 0]
LocalSource(v) == [kind |-> "local", id |-> v]

\* A file that is not there.
NoFile == NoSource
\* Content left in dist by an earlier run of the program.
OldContent == LocalSource(0)

\* build.js:215-286: artifacts written by build(), in the order of the
\* writeJson calls, for one entry io.example/foo: the list under api/ and the
\* latest alias under the URL-encoded name.
ArtifactFiles ==
    << <<"api", "v0.1", "servers.json">>,
       <<"v0.1", "servers", "io.example%2Ffoo", "versions", "latest", "index.json">> >>

NumArtifacts == Len(ArtifactFiles)
ArtifactSet == {ArtifactFiles[i] : i \in 1..NumArtifacts}

NoFiles == [f \in ArtifactSet |-> NoFile]
OldFiles == [f \in ArtifactSet |-> OldContent]

\* The files of the checkout next to dist: DIST_DIR is ROOT/dist
\* (server.cjs:25-26) and ROOT holds README.md, scripts/, servers/.  A path
\* is a sequence of segments relative to dist, so ROOT is <<"..">>.
RootContent == [kind |-> "root", id |-> 0]
RootFiles == { <<"..", "README.md">> }

\* path.join(distDir, pathOnly) (server.cjs:78, 108): the segments are
\* normalized, a '..' removes the segment before it, and a '..' with nothing
\* before it but '..' stays, leading out of dist.  ROOT/dist is dist again.
RECURSIVE normalize(_, _)
normalize(done, rest) ==
    IF rest = <<>> THEN done
    ELSE IF Head(rest) = ".."
    THEN IF done # <<>> /\ done[Len(done)] # ".."
         THEN normalize(SubSeq(done, 1, Len(done) - 1), Tail(rest))
         ELSE normalize(Append(done, ".."), Tail(rest))
    ELSE normalize(Append(done, Head(rest)), Tail(rest))

join(pathOnly) ==
    LET n == normalize(<<>>, pathOnly)
    IN  IF Len(n) >= 2 /\ n[1] = ".." /\ n[2] = "dist"
        THEN SubSeq(n, 3, Len(n))
        ELSE n

\* The path is dist or lies below it.
inDist(p) == p = <<>> \/ p[1] # ".."

\* fs.existsSync / fs.statSync(...).isDirectory() (server.cjs:80-82).
IsFile(d, p) ==
    \/ d.exists /\ p \in DOMAIN d.files /\ d.files[p] # NoFile
    \/ p \in RootFiles

IsDirectory(d, p) ==
    \/ /\ d.exists
       /\ \/ p = <<>>
          \/ \E f \in DOMAIN d.files :
               /\ d.files[f] # NoFile
               /\ Len(p) < Len(f)
               /\ SubSeq(f, 1, Len(p)) = p
    \/ \E f \in RootFiles : Len(p) < Len(f) /\ SubSeq(f, 1, Len(p)) = p /\ p # <<>>

\* fs.readFileSync(filePath) (server.cjs:330)
readFileSync(d, filePath) ==
    IF filePath \in RootFiles THEN RootContent ELSE d.files[filePath]

existsSync(d, p) == IsFile(d, p) \/ IsDirectory(d, p)

\* filePath + '.json' (server.cjs:93, 121)
withJsonExt(p) ==
    IF p = <<>> THEN <<".json">>
    ELSE SubSeq(p, 1, Len(p) - 1) \o <<p[Len(p)] \o ".json">>

\* server.cjs:80-98 and 110-125: one lookup round for a candidate path.
\* kind "file": return path; "null": return null; "miss": fall through.
lookup(d, filePath) ==
    IF existsSync(d, filePath)
    THEN IF IsDirectory(d, filePath)
         THEN IF existsSync(d, filePath \o <<"index.html">>)
              THEN [kind |-> "file", path |-> filePath \o <<"index.html">>]
              ELSE IF existsSync(d, filePath \o <<"index.json">>)
              THEN [kind |-> "file", path |-> filePath \o <<"index.json">>]
              ELSE [kind |-> "null", path |-> <<>>]
         ELSE [kind |-> "file", path |-> filePath]
    ELSE IF existsSync(d, withJsonExt(filePath))
    THEN [kind |-> "file", path |-> withJsonExt(filePath)]
    ELSE IF existsSync(d, filePath \o <<"index.json">>)
    THEN [kind |-> "file", path |-> filePath \o <<"index.json">>]
    ELSE [kind |-> "miss", path |-> <<>>]

\* encodeURIComponent (server.cjs:105) on one segment of the request alphabet:
\* a literal '%' becomes '%25', the other characters used here are unreserved.
encodeSegment(s) ==
    IF s = "io.example%2Ffoo" THEN "io.example%252Ffoo" ELSE s

\* server.cjs:102: /^(\/v0(?:\.1)?\/servers\/)([^/]+\/[^/]+)(\/.*)?$/
apiMatch(p) ==
    /\ Len(p) >= 4
    /\ p[1] \in {"v0", "v0.1"}
    /\ p[2] = "servers"
    /\ p[3] # "" /\ p[4] # ""

\* server.cjs:104-106
encodedPath(p) ==
    <<p[1], p[2], encodeSegment(p[3]) \o "%2F" \o encodeSegment(p[4])>>
        \o SubSeq(p, 5, Len(p))

\* resolveFilePath without the second lookup under the re-encoded name.
resolveFilePathLiteral(urlPath, d) ==
    LET first == lookup(d, join(urlPath))
    IN  IF first.kind # "miss" THEN first.path ELSE <<>>

\* resolveFilePath (server.cjs:66-129); <<>> stands for null.
resolveFilePath(urlPath, d) ==
    LET first == lookup(d, join(urlPath))
    IN  IF first.kind # "miss" THEN first.path
        ELSE IF apiMatch(urlPath)
        THEN lookup(d, join(encodedPath(urlPath))).path
        ELSE <<>>

\* server.cjs:319-338: the answer to GET urlPath.
serveFile(urlPath, d) ==
    LET filePath == resolveFilePath(urlPath, d)
    IN  IF filePath = <<>>
        THEN [status |-> 404, val |-> NoFile]
        ELSE [status |-> 200, val |-> readFileSync(d, filePath)]

\* Request paths used for GET.
RequestPaths ==
    { <<"api", "v0.1", "servers">>,
      <<"v0.1", "servers", "io.example", "foo", "versions", "latest">>,
      <<"nothing">>,
      <<"..", "README.md">>,
      <<"api", "..", "..", "README">> }

\* ================================================= webhook signature check

\* 'body += chunk' (server.cjs:201): each chunk is decoded to UTF-8 text on
\* its own.  Bytes: "a" is an ASCII byte, "C3" "A9" is a two-byte character;
\* a lead or continuation byte on its own decodes to U+FFFD.
RECURSIVE utf8Decode(_)
utf8Decode(bytes) ==
    IF bytes = <<>> THEN <<>>
    ELSE IF bytes[1] = "a" THEN <<"a">> \o utf8Decode(Tail(bytes))
    ELSE IF bytes[1] = "C3" /\ Len(bytes) >= 2 /\ bytes[2] = "A9"
    THEN <<"e-acute">> \o utf8Decode(Tail(Tail(bytes)))
    ELSE <<"U+FFFD">> \o utf8Decode(Tail(bytes))

\* hmac.update(payload) with a string (server.cjs:186): UTF-8 encoding.
RECURSIVE utf8Encode(_)
utf8Encode(str) ==
    IF str = <<>> THEN <<>>
    ELSE (CASE str[1] = "a" -> <<"a">>
            [] str[1] = "e-acute" -> <<"C3", "A9">>
            [] OTHER -> <<"EF", "BF", "BD">>) \o utf8Encode(Tail(str))

\* server.cjs:199-201: the body string accumulated from the data events.
RECURSIVE accumulateBody(_)
accumulateBody(chunks) ==
    IF chunks = <<>> THEN <<>>
    ELSE utf8Decode(chunks[1]) \o accumulateBody(Tail(chunks))

\* The bytes on the wire.
RECURSIVE rawBody(_)
rawBody(chunks) ==
    IF chunks = <<>> THEN <<>>
    ELSE chunks[1] \o rawBody(Tail(chunks))

\* 'sha256=' + HMAC-SHA256(key, bytes) as hex (server.cjs:185-186), taken
\* collision-free: the digest determines key and bytes.
hmacDigest(key, bytes) == [key |-> key, bytes |-> bytes]

\* No X-Hub-Signature-256 header.
NoSignature == [key |-> "", bytes |-> <<>>]

\* validateWebhookSignature (server.cjs:181-193); timingSafeEqual on buffers
\* of different length throws, which gives false like unequal content.
validateWebhookSignature(body, signature) ==
    IF ~secretSet THEN TRUE
    ELSE IF signature = NoSignature THEN FALSE
    ELSE signature = hmacDigest("secret", utf8Encode(body))

\* payload.ref?.replace('refs/heads/', '') || 'unknown' (server.cjs:215) on a
\* ref given as its '/'-separated segments; <<>> is a missing or empty ref.
RECURSIVE stripRefsHeads(_)
stripRefsHeads(ref) ==
    IF Len(ref) >= 3 /\ ref[1] = "refs" /\ ref[2] = "heads"
    THEN SubSeq(ref, 3, Len(ref))
    ELSE IF ref = <<>> THEN <<>>
    ELSE <<ref[1]>> \o stripRefsHeads(Tail(ref))

branchOf(ref) ==
    IF stripRefsHeads(ref) = <<>> THEN <<"unknown">> ELSE stripRefsHeads(ref)

\* A rebuild condition that looks at no branch.
webhookTriggersAlways(branch) == TRUE

\* server.cjs:220: the rebuild condition of handleWebhook.
webhookTriggers(branch) ==
    branch = trackedBranch \/ ~isRemote

\* Bodies on the wire: ASCII in one chunk; a two-byte character inside one
\* chunk; the same character split over two chunks.
AsciiBody == << <<"a">> >>
WholeCharBody == << <<"a", "C3", "A9">> >>
SplitCharBody == << <<"a", "C3">>, <<"A9">> >>

\* payload.ref of the parsed body; json is FALSE when JSON.parse throws.
Payload(ref) == [json |-> TRUE, ref |-> ref]
BadJson == [json |-> FALSE, ref |-> <<>>]

\* The sender's signature header: the HMAC of the bytes it sent.
signedBy(key, chunks) == hmacDigest(key, rawBody(chunks))

\* The webhook deliveries tried: every kind of ref, of signature and of body.
WebhookRequests ==
    { [sig |-> signedBy("secret", AsciiBody), chunks |-> AsciiBody,
       payload |-> Payload(<<"refs", "heads", "main">>)],
      [sig |-> signedBy("secret", AsciiBody), chunks |-> AsciiBody,
       payload |-> Payload(<<"refs", "heads", "dev">>)],
      [sig |-> signedBy("secret", AsciiBody), chunks |-> AsciiBody,
       payload |-> Payload(<<"refs", "tags", "main">>)],
      [sig |-> signedBy("secret", AsciiBody), chunks |-> AsciiBody,
       payload |-> Payload(<<>>)],
      [sig |-> signedBy("secret", AsciiBody), chunks |-> AsciiBody,
       payload |-> BadJson],
      [sig |-> NoSignature, chunks |-> AsciiBody,
       payload |-> Payload(<<"refs", "heads", "main">>)],
      [sig |-> signedBy("other", AsciiBody), chunks |-> AsciiBody,
       payload |-> Payload(<<"refs", "heads", "main">>)],
      [sig |-> signedBy("secret", WholeCharBody), chunks |-> WholeCharBody,
       payload |-> Payload(<<"refs", "heads", "dev">>)],
      [sig |-> signedBy("secret", SplitCharBody), chunks |-> SplitCharBody,
       payload |-> Payload(<<"refs", "heads", "dev">>)] }

\* A request that is not a webhook.
NoReq == [sig |-> NoSignature, chunks |-> <<>>, payload |-> BadJson]

\* ============================== the entry files (build.js, github-source.js)
\* build.js is the newer revision of the build script, the one that has
\* normalizeServer and the GitHub source (src/tests/cli.test.js:419-967).

\* A member of a JSON object that is absent, and one that holds an array.
Absent == [def |-> FALSE, val |-> <<>>]
Arr(s) == [def |-> TRUE, val |-> s]

\* Identifiers are kept as their '/'-separated segments: <<"io.example","foo">>
\* is "io.example/foo", <<>> is a missing or empty name.  Strings "" are
\* missing or empty members (both falsy).
NoName == <<>>

\* One raw server object: name, description, version, packages, versions.
RawObject(name, description, version, packages, versions) ==
    [name |-> name, description |-> description, version |-> version,
     packages |-> packages, versions |-> versions]

\* One element of a versions array.
VersionRecord(version, isLatest, packages) ==
    [version |-> version, isLatest |-> isLatest, packages |-> packages]

\* One parsed file: its "servers" member and its other top-level members.
SingleFile(data) == [servers |-> Absent, data |-> data]
ContainerFile(elements) ==
    [servers |-> Arr(elements),
     data |-> RawObject(NoName, "", "", Absent, Absent)]

\* The result of a call that may throw.
Thrown == [ok |-> FALSE, val |-> <<>>]
Returned(v) == [ok |-> TRUE, val |-> v]

\* normalizeServer without the flat branch: every object is returned as it is.
normalizeServerAsIs(data) ==
    IF data.name = NoName \/ data.description = ""
    THEN Thrown
    ELSE Returned(data)

\* normalizeServer (cli.test.js:508-537)
normalizeServer(data) ==
    IF data.name = NoName \/ data.description = ""
    THEN Thrown
    ELSE IF data.version # "" /\ data.packages.def /\ ~data.versions.def
    THEN Returned(RawObject(data.name, data.description, "", Absent,
             Arr(<<VersionRecord(data.version, TRUE, data.packages)>>)))
    ELSE IF data.versions.def
    THEN Returned(data)
    ELSE Thrown

\* loadServerFile (cli.test.js:492-497): the loop over data.servers; the
\* first element normalizeServer throws on ends the call.
RECURSIVE normalizeEach(_)
normalizeEach(elements) ==
    IF elements = <<>> THEN Returned(<<>>)
    ELSE LET head == normalizeServer(elements[1])
             rest == normalizeEach(Tail(elements))
         IN  IF head.ok /\ rest.ok
             THEN Returned(<<head.val>> \o rest.val)
             ELSE Thrown

\* loadServerFile (cli.test.js:486-502)
loadServerFile(file) ==
    IF file.servers.def
    THEN normalizeEach(file.servers.val)
    ELSE LET r == normalizeServer(file.data)
         IN  IF r.ok THEN Returned(<<r.val>>) ELSE Thrown

\* validateServer (part_002:275-283): TRUE when it returns, FALSE when it
\* throws.
validateServer(server) ==
    /\ server.name # NoName /\ server.description # ""
    /\ server.versions.def \/ (server.version # "" /\ server.packages.def)

\* loadServerFileFromGitHub (part_002:230-268) once fetchJsonFile has returned
\* the parsed file.
loadServerFileData(file) ==
    IF file.servers.def
    THEN IF \A i \in 1..Len(file.servers.val) : validateServer(file.servers.val[i])
         THEN Returned(file.servers.val)
         ELSE Thrown
    ELSE LET data == file.data
         IN  IF data.name # NoName /\ data.description # ""
             THEN IF data.version # "" /\ data.packages.def
                  THEN Returned(<<RawObject(data.name, data.description, "", Absent,
                           Arr(<<VersionRecord(data.version, TRUE, data.packages)>>))>>)
                  ELSE IF data.versions.def
                  THEN Returned(<<data>>)
                  ELSE Thrown
             ELSE Thrown

\* build (cli.test.js:691-702): the loop over the local files; a file whose
\* load throws is logged and skipped.
RECURSIVE loadLocalFiles(_)
loadLocalFiles(files) ==
    IF files = <<>> THEN <<>>
    ELSE LET r == loadServerFile(files[1])
         IN  (IF r.ok THEN r.val ELSE <<>>) \o loadLocalFiles(Tail(files))

\* fetchServersFromGitHub (part_002:306-320): the same loop over the files
\* of the repository.
RECURSIVE fetchServersData(_)
fetchServersData(files) ==
    IF files = <<>> THEN <<>>
    ELSE LET r == loadServerFileData(files[1])
         IN  (IF r.ok THEN r.val ELSE <<>>) \o fetchServersData(Tail(files))

\* a.name.localeCompare(b.name) (cli.test.js:705) on the identifiers used
\* here: their positions in collation order.
localeOrder ==
    << <<"invalid">>, <<"io.example", "bar">>, <<"io.example", "foo">> >>
localeRank(name) == CHOOSE i \in 1..Len(localeOrder) : localeOrder[i] = name

\* servers.sort(...) (cli.test.js:705): Array.prototype.sort is stable.
RECURSIVE insertSorted(_, _)
insertSorted(sorted, s) ==
    IF sorted = <<>> THEN <<s>>
    ELSE IF localeRank(sorted[Len(sorted)].name) <= localeRank(s.name)
    THEN sorted \o <<s>>
    ELSE insertSorted(SubSeq(sorted, 1, Len(sorted) - 1), s)
             \o <<sorted[Len(sorted)]>>

RECURSIVE sortByName(_)
sortByName(list) ==
    IF list = <<>> THEN <<>>
    ELSE insertSorted(sortByName(SubSeq(list, 1, Len(list) - 1)),
                      list[Len(list)])

\* build (cli.test.js:675-705): load from GitHub or from the local files,
\* then sort by name.
loadServers(src, files) ==
    sortByName(IF src = "github" THEN fetchServersData(files)
               ELSE loadLocalFiles(files))

\* ------------------------------------------------- the views (build.js)

\* The other reading of "latest": the last version of the list.
latestVersionLast(versions) == Len(versions)

\* server.versions.find(v => v.isLatest) || server.versions[0]
\* (cli.test.js:543, 721, 766; dynamic-server.js:162, 255): the index of the
\* version chosen, 0 when the expression is undefined.
latestVersion(versions) ==
    IF \E i \in 1..Len(versions) : versions[i].isLatest
    THEN CHOOSE i \in 1..Len(versions) :
            /\ versions[i].isLatest
            /\ \A j \in 1..(i - 1) : ~versions[j].isLatest
    ELSE IF versions # <<>> THEN 1 ELSE 0

\* toApiServerSummary (cli.test.js:542-551)
toApiServerSummary(server) ==
    [kind |-> "summary", name |-> server.name,
     description |-> server.description,
     version |-> server.versions.val[latestVersion(server.versions.val)].version]

\* toApiServerDetail (cli.test.js:556-568)
toApiServerDetail(server) ==
    [kind |-> "detail", name |-> server.name,
     description |-> server.description,
     versions |-> [i \in 1..Len(server.versions.val) |->
                     [version |-> server.versions.val[i].version,
                      isLatest |-> server.versions.val[i].isLatest]]]

\* toApiVersionDetail (cli.test.js:573-583)
toApiVersionDetail(server, version) ==
    [kind |-> "version", name |-> server.name,
     description |-> server.description,
     version |-> version.version, packages |-> version.packages]

\* toVSCodeServerFormat (cli.test.js:589-612, dynamic-server.js:94-116); now
\* is the clock at the call (updatedAt, and publishedAt of a version without
\* a release date).
toVSCodeServerFormat(server, version, now) ==
    [kind |-> "envelope", name |-> server.name,
     description |-> server.description,
     version |-> version.version, packages |-> version.packages,
     isLatest |-> version.isLatest, updatedAt |-> now]

\* encodeServerName (cli.test.js:633-635): encodeURIComponent of the name;
\* the separator becomes %2F.
RECURSIVE encodeServerName(_)
encodeServerName(name) ==
    IF Len(name) = 1 THEN encodeSegment(name[1])
    ELSE encodeSegment(name[1]) \o "%2F" \o encodeServerName(Tail(name))

RECURSIVE Flatten(_)
Flatten(ss) == IF ss = <<>> THEN <<>> ELSE ss[1] \o Flatten(Tail(ss))

\* The clock during a build: it reads 1 until its tickAt-th reading and 2
\* from then on.
clockAt(k, tickAt) == IF k < tickAt THEN 1 ELSE 2

\* Readings of the clock made for one entry (cli.test.js:749-784): two per
\* version, two for the latest alias, one per version for the versions list.
readingsOf(server) == 3 * Len(server.versions.val) + 2

RECURSIVE readingsBefore(_, _)
readingsBefore(list, j) ==
    IF j <= 1 THEN 0
    ELSE readingsOf(list[j - 1]) + readingsBefore(list, j - 1)

\* Total number of readings of the clock in one build: the summary list, the
\* wrapped list, the entries' files, the discovery document.
readingsIn(list) == 2 + Len(list) + readingsBefore(list, Len(list) + 1)

\* One writeJson call (cli.test.js:624-627).
writeJson(filePath, data) == [path |-> filePath, body |-> data]

\* build (cli.test.js:707-732): the summary list and the two wrapped lists.
listWrites(list, tickAt) ==
    LET vsCodeResponse ==
            [kind |-> "servers",
             servers |-> [j \in 1..Len(list) |->
                 toVSCodeServerFormat(list[j],
                     list[j].versions.val[latestVersion(list[j].versions.val)],
                     clockAt(1 + j, tickAt))],
             count |-> Len(list)]
    IN  << writeJson(<<"api", "v0.1", "servers.json">>,
               [kind |-> "serverList",
                servers |-> [j \in 1..Len(list) |-> toApiServerSummary(list[j])],
                total |-> Len(list), generated |-> clockAt(1, tickAt)]),
           writeJson(<<"v0", "servers", "index.json">>, vsCodeResponse),
           writeJson(<<"v0.1", "servers", "index.json">>, vsCodeResponse) >>

\* build (cli.test.js:736-795): the files of the j-th entry.
serverWrites(list, j, tickAt) ==
    LET server == list[j]
        vs == server.versions.val
        m == Len(vs)
        enc == encodeServerName(server.name)
        base == 1 + Len(list) + readingsBefore(list, j)
        now(k) == clockAt(base + k, tickAt)
        latest == vs[latestVersion(vs)]
        perVersion(i) ==
            << writeJson(<<"api", "v0.1", "servers", enc, "versions",
                           vs[i].version \o ".json">>,
                   toApiVersionDetail(server, vs[i])),
               writeJson(<<"v0", "servers", enc, "versions", vs[i].version,
                           "index.json">>,
                   toVSCodeServerFormat(server, vs[i], now(2 * i - 1))),
               writeJson(<<"v0.1", "servers", enc, "versions", vs[i].version,
                           "index.json">>,
                   toVSCodeServerFormat(server, vs[i], now(2 * i))) >>
        v0VersionsList ==
            [kind |-> "servers",
             servers |-> [i \in 1..m |->
                 toVSCodeServerFormat(server, vs[i], now(2 * m + 2 + i))],
             count |-> m]
    IN  << writeJson(<<"api", "v0.1", "servers", enc, "versions.json">>,
               toApiServerDetail(server)) >>
        \o Flatten([i \in 1..m |-> perVersion(i)])
        \o << writeJson(<<"api", "v0.1", "servers", enc, "versions",
                          "latest.json">>,
                  toApiVersionDetail(server, latest)),
              writeJson(<<"v0", "servers", enc, "versions", "latest",
                          "index.json">>,
                  toVSCodeServerFormat(server, latest, now(2 * m + 1))),
              writeJson(<<"v0.1", "servers", enc, "versions", "latest",
                          "index.json">>,
                  toVSCodeServerFormat(server, latest, now(2 * m + 2))),
              writeJson(<<"v0", "servers", enc, "versions", "index.json">>,
                  v0VersionsList),
              writeJson(<<"v0.1", "servers", enc, "versions", "index.json">>,
                  v0VersionsList) >>

\* build (cli.test.js:818-844): the discovery document.
discoveryWrites(list, tickAt) ==
    << writeJson(<<"api", "index.json">>,
           [kind |-> "discovery", version |-> "0.1.0",
            generated |-> clockAt(readingsIn(list), tickAt)]) >>

\* encodeURIComponent (cli.test.js:634) as the escapes it writes: the
\* segments of the name with "%2F" for each separator.
RECURSIVE encodeURIComponent(_)
encodeURIComponent(name) ==
    IF Len(name) = 1 THEN <<name[1]>>
    ELSE <<name[1], "%2F">> \o encodeURIComponent(Tail(name))

\* The href of one version link (cli.test.js:903, 924), segment by segment.
versionUrl(name, version) ==
    << <<"..">>, <<"..">>, <<"v0.1">>, <<"servers">>,
       encodeURIComponent(name), <<"versions">>, <<version \o ".json">> >>

\* generateSimpleIndex (cli.test.js:864-931): the root index and one index
\* per entry, each as HTML and as JSON.
simpleRootWrites(list) ==
    << writeJson(<<"api", "simple", "index.html">>,
           [kind |-> "html",
            links |-> [j \in 1..Len(list) |->
                [href |-> << encodeURIComponent(list[j].name) >>,
                 text |-> list[j].name]]]),
       writeJson(<<"api", "simple", "index.json">>,
           [kind |-> "simple",
            servers |-> [j \in 1..Len(list) |->
                [name |-> list[j].name,
                 url |-> << encodeURIComponent(list[j].name) >>]]]) >>

simpleServerWrites(server) ==
    LET vs == server.versions.val
        enc == encodeServerName(server.name)
    IN  << writeJson(<<"api", "simple", enc, "index.html">>,
               [kind |-> "html",
                links |-> [i \in 1..Len(vs) |->
                    [href |-> versionUrl(server.name, vs[i].version),
                     text |-> IF vs[i].isLatest
                              THEN vs[i].version \o " (latest)"
                              ELSE vs[i].version]]]),
           writeJson(<<"api", "simple", enc, "index.json">>,
               [kind |-> "simpleServer", name |-> server.name,
                description |-> server.description,
                versions |-> [i \in 1..Len(vs) |->
                    [version |-> vs[i].version, isLatest |-> vs[i].isLatest,
                     url |-> versionUrl(server.name, vs[i].version)]]]) >>

generateSimpleIndex(list) ==
    simpleRootWrites(list)
        \o Flatten([j \in 1..Len(list) |-> simpleServerWrites(list[j])])

\* The files left by a sequence of writeJson calls: a later write to a path
\* replaces an earlier one.
filesWritten(writes) ==
    [p \in {writes[i].path : i \in DOMAIN writes} |->
        writes[CHOOSE i \in DOMAIN writes :
                  /\ writes[i].path = p
                  /\ \A j \in DOMAIN writes : writes[j].path = p => j <= i].body]

\* An entry the views cannot be made of: server.versions.find is called on
\* undefined, or .version is read of an undefined latest version
\* (cli.test.js:543-547): a TypeError.
hasNoLatest(server) ==
    ~server.versions.def \/ latestVersion(server.versions.val) = 0

\* build (cli.test.js:669-795): the dist directory after the run.  The
\* directory is emptied first; a TypeError in the first map over the entries
\* ends the run before anything is written.
buildViews(list, tickAt) ==
    IF \E j \in 1..Len(list) : hasNoLatest(list[j])
    THEN [exists |-> TRUE, files |-> <<>>]
    ELSE [exists |-> TRUE,
          files |-> filesWritten(listWrites(list, tickAt)
              \o Flatten([j \in 1..Len(list) |-> serverWrites(list, j, tickAt)])
              \o discoveryWrites(list, tickAt)
              \o generateSimpleIndex(list))]

\* ---------------------------------------------------------- request paths

\* The path of a request as it is sent: a sequence of segments, each a
\* sequence of tokens.  A token is literal text, the escape "%2F", or a "%"
\* that starts no escape.
RECURSIVE rawText(_)
rawText(segment) ==
    IF segment = <<>> THEN "" ELSE segment[1] \o rawText(Tail(segment))

\* req.url (server.cjs:289): Node hands the path over as it was sent.
pathOnly(req) == [i \in 1..Len(req) |-> rawText(req[i])]

\* decodeURIComponent on one segment: "%2F" becomes the separator and splits
\* the segment.
RECURSIVE decodeSegment(_, _)
decodeSegment(segment, text) ==
    IF segment = <<>> THEN <<text>>
    ELSE IF segment[1] = "%2F"
    THEN <<text>> \o decodeSegment(Tail(segment), "")
    ELSE decodeSegment(Tail(segment), text \o segment[1])

\* decodeURIComponent(url.pathname) (dynamic-server.js:198): a "%" that
\* starts no escape throws URIError.
decodeURIComponent(req) ==
    IF \E i \in 1..Len(req) : \E k \in 1..Len(req[i]) : req[i][k] = "%"
    THEN Thrown
    ELSE Returned(Flatten([i \in 1..Len(req) |-> decodeSegment(req[i], "")]))

\* ------------------------------------------------------ the static router

NoAnswer == [status |-> 0, body |-> NoFile]
NotFound(error) == [status |-> 404, body |-> [kind |-> "error", error |-> error]]

\* server.cjs:319-338: the answer of the static server to GET req.
staticAnswer(req, d) ==
    LET filePath == resolveFilePath(pathOnly(req), d)
    IN  IF filePath = <<>>
        THEN NotFound("Not found")
        ELSE [status |-> 200, body |-> readFileSync(d, filePath)]

\* ----------------------------------------------------- the dynamic router

\* findServer (dynamic-server.js:178-180): the index of the first entry of
\* that name, 0 when there is none.
findServer(cache, name) ==
    IF \E j \in 1..Len(cache) : cache[j].name = name
    THEN CHOOSE j \in 1..Len(cache) :
            /\ cache[j].name = name
            /\ \A k \in 1..(j - 1) : cache[k].name # name
    ELSE 0

\* server.versions.find(v => v.version === versionId)
\* (dynamic-server.js:257): the index of the version, 0 when undefined.
findVersion(versions, versionId) ==
    IF \E i \in 1..Len(versions) : versions[i].version = versionId
    THEN CHOOSE i \in 1..Len(versions) :
            /\ versions[i].version = versionId
            /\ \A k \in 1..(i - 1) : versions[k].version # versionId
    ELSE 0

\* getServersList (dynamic-server.js:160-173)
getServersList(cache, now) ==
    IF \E j \in 1..Len(cache) : hasNoLatest(cache[j])
    THEN Thrown
    ELSE Returned([status |-> 200, body |->
            [kind |-> "servers",
             servers |-> [j \in 1..Len(cache) |->
                 toVSCodeServerFormat(cache[j],
                     cache[j].versions.val[latestVersion(cache[j].versions.val)],
                     now)],
             count |-> Len(cache)]])

\* /^\/(v0\.1|v0)\/servers\/?$/ (dynamic-server.js:234)
listMatch(p) == Len(p) = 2 /\ p[1] \in {"v0", "v0.1"} /\ p[2] = "servers"

\* /^\/(v0\.1|v0)\/servers\/([^/]+)\/([^/]+)\/versions\/([^/]+)\/?$/
\* (dynamic-server.js:243)
versionMatch(p) ==
    /\ Len(p) = 6 /\ p[1] \in {"v0", "v0.1"} /\ p[2] = "servers"
    /\ p[3] # "" /\ p[4] # "" /\ p[5] = "versions" /\ p[6] # ""

\* /^\/(v0\.1|v0)\/servers\/([^/]+)\/([^/]+)\/versions\/?$/
\* (dynamic-server.js:275)
versionsMatch(p) ==
    /\ Len(p) = 5 /\ p[1] \in {"v0", "v0.1"} /\ p[2] = "servers"
    /\ p[3] # "" /\ p[4] # "" /\ p[5] = "versions"

\* handleRequest (dynamic-server.js:244-270): one version of one entry.
versionAnswer(p, cache, now) ==
    LET j == findServer(cache, <<p[3], p[4]>>)
    IN  IF j = 0 THEN Returned(NotFound("Server not found"))
        ELSE IF ~cache[j].versions.def THEN Thrown
        ELSE LET vs == cache[j].versions.val
                 i == IF p[6] = "latest" THEN latestVersion(vs)
                      ELSE findVersion(vs, p[6])
             IN  IF i = 0 THEN Returned(NotFound("Version not found"))
                 ELSE Returned([status |-> 200,
                          body |-> toVSCodeServerFormat(cache[j], vs[i], now)])

\* handleRequest (dynamic-server.js:276-294): the versions of one entry.
versionsAnswer(p, cache, now) ==
    LET j == findServer(cache, <<p[3], p[4]>>)
    IN  IF j = 0 THEN Returned(NotFound("Server not found"))
        ELSE IF ~cache[j].versions.def THEN Thrown
        ELSE LET vs == cache[j].versions.val
             IN  Returned([status |-> 200, body |->
                     [kind |-> "servers",
                      servers |-> [i \in 1..Len(vs) |->
                          toVSCodeServerFormat(cache[j], vs[i], now)],
                      count |-> Len(vs)]])

\* handleRequest (dynamic-server.js:185-299) for a GET of an API path or of
\* an unknown path; Thrown is an exception that leaves the handler.
handleRequest(req, cache, now) ==
    LET decoded == decodeURIComponent(req)
        p == decoded.val
    IN  IF ~decoded.ok THEN Thrown
        ELSE IF listMatch(p) THEN getServersList(cache, now)
        ELSE IF versionMatch(p) THEN versionAnswer(p, cache, now)
        ELSE IF versionsMatch(p) THEN versionsAnswer(p, cache, now)
        ELSE Returned(NotFound("Not found"))

\* The entry files play no part in a run of Spec, where a pass is identified
\* by the source it read.
NoDir == [exists |-> FALSE, files |-> <<>>]
RegistryIdle ==
    /\ source = "local"
    /\ rawFiles = <<>>
    /\ entries = <<>>
    /\ outDir = NoDir
    /\ stage = "idle"
    /\ answer = NoAnswer

\* The import command has not run.
NoTarget == [format |-> "none"]
NoImport == [serverName |-> NoName, versionsData |-> <<>>, note |-> "none"]
NoMerge == [existing |-> <<>>, incoming |-> <<>>, result |-> <<>>]
\* build.js has not been started with --watch.
WatchIdle == builds = <<>>

ImportIdle ==
    /\ outputFile = NoTarget
    /\ priorFile = NoTarget
    /\ imported = NoImport
    /\ merged = NoMerge
    /\ imports = 0

\* ================================================================ server.cjs

\* What can go wrong in one callback: nothing, or one of git clone / git fetch
\* / git reset throwing in execSync (git-sync.cjs:198-205), or the spawn of
\* the build failing (server.cjs:170-174).
StartupFaults == {"none", "clone", "spawn"}
PollFaults == {"none", "fetch", "reset", "spawn"}
WebhookFaults == {"none", "reset", "spawn"}

NoWaiter == [op |-> "none", busy |-> FALSE]
\* dynamic-server.js:40-44: the cache before the first refresh.
NoCache == [servers |-> <<>>, lastRefresh |-> NoTime, refreshing |-> FALSE]
NoPass == [pc |-> "idle", next |-> 0, servers |-> <<>>]
NoChild == [pc |-> "none", read |-> NoSource, head |-> NoCommit, written |-> 0]

\* A caller of the coordinator: what it is and whether a pass was in flight
\* when it was handled.
caller(op) == [op |-> op, busy |-> isBuilding \/ serverCache.refreshing]

\* A response: who asked, the status line and the fields of the body.
respond(me, req, path, status, msg, content, commit, time) ==
    [op |-> me.op, busy |-> me.busy, req |-> req, path |-> path,
     status |-> status, msg |-> msg, content |-> content, commit |-> commit,
     time |-> time]

NoResp == respond(NoWaiter, NoReq, <<>>, 0, "", NoFile, NoCommit, NoTime)

\* The request is open: its handler awaits the build it started.
pending(me, req) ==
    respond(me, req, <<>>, 0, "pending", NoFile, NoCommit, NoTime)

buildVars == <<isBuilding, child, inFlight, waiter, passes, passInfo>>

\* build.js:20, 189: SERVERS_DIR = join(ROOT, 'servers') is what build()
\* reads; MCP_SERVERS_DIR, set by runBuild (server.cjs:147), is not read.
buildSource == LocalSource(serversTree)

\* runBuild without the isBuilding test of server.cjs:138-141.
runBuildUnguarded(who, spawnOk) ==
    IF ~spawnOk
    THEN /\ passInfo' = [outcome |-> "failed", before |-> dist]
         /\ UNCHANGED <<isBuilding, child, inFlight, waiter, passes>>
    ELSE /\ passes < MaxPasses
         /\ isBuilding' = TRUE
         /\ child' = [NoChild EXCEPT !.pc = "spawned"]
         /\ inFlight' = inFlight + 1
         /\ waiter' = who
         /\ passes' = passes + 1
         /\ passInfo' = [outcome |-> "running", before |-> dist]

\* runBuild (server.cjs:137-176) up to the spawn.  With a pass in flight it
\* returns false at once; else it sets isBuilding and spawns build.js.  A
\* spawn error (server.cjs:170-174) clears the flag again and resolves false.
runBuild(who, spawnOk) ==
    IF isBuilding
    THEN UNCHANGED buildVars
    ELSE IF ~spawnOk
    THEN /\ passInfo' = [outcome |-> "failed", before |-> dist]
         /\ UNCHANGED <<isBuilding, child, inFlight, waiter, passes>>
    ELSE /\ passes < MaxPasses
         /\ isBuilding' = TRUE
         /\ child' = [NoChild EXCEPT !.pc = "spawned"]
         /\ inFlight' = inFlight + 1
         /\ waiter' = who
         /\ passes' = passes + 1
         /\ passInfo' = [outcome |-> "running", before |-> dist]

\* Whether the caller of runBuild is left awaiting the child's close event.
awaitsBuild(spawnOk) == ~isBuilding /\ spawnOk

\* main (server.cjs:345-379): initialize the clone, decide whether to build,
\* build and wait; polling and listening start after that.
Startup(fault) ==
    /\ program = "static"
    /\ mainPc = "start"
    /\ resp' = NoResp
    /\ UNCHANGED <<watchVars, importVars, registryVars, program, upstream, built, isRemote, secretSet,
                   serversTree, dist, buildCache, dynamicVars>>
    /\ IF isRemote /\ fault = "clone"
       THEN /\ mainPc' = "exited"
            /\ UNCHANGED <<gitSync, buildVars>>
       ELSE LET gs1 == IF isRemote
                       THEN [lastCommitHash |-> upstream, originHead |-> upstream]
                       ELSE gitSync
                needsBuild == IF isRemote
                              THEN needsRebuild(buildCache, gs1.lastCommitHash)
                              ELSE ~existsSync(dist, <<"api">>)
            IN  /\ gitSync' = gs1
                /\ IF needsBuild
                   THEN /\ runBuild(caller("startup"), fault # "spawn")
                        /\ mainPc' = IF fault # "spawn" THEN "building"
                                     ELSE IF dist.exists THEN "serving"
                                     ELSE "exited"
                   ELSE /\ mainPc' = "serving"
                        /\ UNCHANGED buildVars

\* build() in the child process (build.js:182-186): clean the dist directory.
ChildClean ==
    /\ program = "static"
    /\ child.pc = "spawned"
    /\ child' = [child EXCEPT !.pc = "cleaned"]
    /\ dist' = [exists |-> TRUE, files |-> NoFiles]
    /\ resp' = NoResp
    /\ UNCHANGED <<watchVars, importVars, registryVars, program, mainPc, upstream, inFlight, passes, passInfo, built,
                   isRemote, secretSet, gitSync, serversTree, isBuilding,
                   buildCache, waiter, dynamicVars>>

\* build.js:188-207: find and load the server files; head is the commit the
\* clone is at while they are read.
ChildRead ==
    /\ program = "static"
    /\ child.pc = "cleaned"
    /\ child' = [child EXCEPT !.pc = "writing", !.read = buildSource,
                              !.head = gitSync.lastCommitHash]
    /\ resp' = NoResp
    /\ UNCHANGED <<watchVars, importVars, registryVars, program, mainPc, upstream, inFlight, passes, passInfo, built,
                   isRemote, secretSet, gitSync, serversTree, isBuilding,
                   dist, buildCache, waiter, dynamicVars>>

\* build.js:209-297: one writeJson call.
ChildWrite ==
    /\ program = "static"
    /\ child.pc = "writing"
    /\ child.written < NumArtifacts
    /\ child' = [child EXCEPT !.written = child.written + 1]
    /\ dist' = [dist EXCEPT
                  !.files[ArtifactFiles[child.written + 1]] = child.read]
    /\ resp' = NoResp
    /\ UNCHANGED <<watchVars, importVars, registryVars, program, mainPc, upstream, inFlight, passes, passInfo, built,
                   isRemote, secretSet, gitSync, serversTree, isBuilding,
                   buildCache, waiter, dynamicVars>>

\* The child exits and runBuild's close handler runs (server.cjs:157-168),
\* followed by the continuation of the caller that awaited runBuild.  Exit
\* code 0 needs the whole of build(); a throw anywhere in it exits with 1
\* (build.js:455-458).
BuildClose(code) ==
    /\ program = "static"
    /\ mainPc # "blocked"
    /\ child.pc # "none"
    /\ code = 0 => (child.pc = "writing" /\ child.written = NumArtifacts)
    /\ isBuilding' = FALSE
    /\ inFlight' = inFlight - 1
    /\ child' = NoChild
    /\ waiter' = NoWaiter
    /\ passInfo' = [passInfo EXCEPT !.outcome = IF code = 0 THEN "ok" ELSE "failed"]
    /\ buildCache' = IF code = 0
                     THEN markBuilt(gitSync.lastCommitHash, passes)
                     ELSE buildCache
    /\ built' = IF code = 0
                THEN built \cup {[src |-> child.read, head |-> child.head]}
                ELSE built
    /\ mainPc' = IF waiter.op = "startup"
                 THEN IF code # 0 /\ ~dist.exists THEN "exited" ELSE "serving"
                 ELSE mainPc
    /\ resp' = CASE waiter.op = "webhook" ->
                      respond(waiter, NoReq, <<>>, 200, "Rebuild triggered",
                              NoFile, gitSync.lastCommitHash, NoTime)
                 [] waiter.op = "refresh" ->
                      respond(waiter, NoReq, <<>>, 200, "Refresh complete",
                              NoFile, NoCommit, NoTime)
                 [] OTHER -> NoResp
    /\ UNCHANGED <<watchVars, importVars, registryVars, program, upstream, passes, isRemote, secretSet, gitSync,
                   serversTree, dist, dynamicVars>>

\* The poll timer's callback (git-sync.cjs:155-166) with the onUpdate
\* callback main() passes (server.cjs:375-378).
PollTick(fault) ==
    /\ program = "static"
    /\ mainPc = "serving"
    /\ isRemote
    /\ LET h == hasUpdates(gitSync, fault # "fetch")
           p == pull(h.gs, fault # "reset")
       IN  IF h.res
           THEN /\ gitSync' = p.gs
                /\ IF p.res
                   THEN runBuild(caller("poll"), fault # "spawn")
                   ELSE UNCHANGED buildVars
           ELSE /\ gitSync' = h.gs
                /\ UNCHANGED buildVars
    /\ resp' = NoResp
    /\ UNCHANGED <<watchVars, importVars, registryVars, program, mainPc, upstream, built, isRemote, secretSet,
                   serversTree, dist, buildCache, dynamicVars>>

\* _git (git-sync.cjs:198-205) called for git clone or git fetch (initialize,
\* git-sync.cjs:80-88; hasUpdates, git-sync.cjs:109; refresh) when the remote
\* accepts the connection and never answers.  execSync is given no timeout
\* and git sets none by default, so the call does not return; it runs on the
\* server's only thread, so from then on no timer, request or close event is
\* handled.  The call is the first thing its caller does.
GitBlocks ==
    /\ program = "static"
    /\ isRemote
    /\ mainPc \in {"start", "serving"}
    /\ mainPc' = "blocked"
    /\ resp' = NoResp
    /\ UNCHANGED <<watchVars, importVars, registryVars, program, upstream, inFlight,
                   passes, passInfo, built, staticVars, dynamicVars>>

\* POST /_refresh (server.cjs:303-317).
HandleRefresh(fault) ==
    /\ program = "static"
    /\ mainPc = "serving"
    /\ LET r == refresh(gitSync, fault # "fetch", fault # "reset")
           spawnOk == fault # "spawn"
           doBuild == IF isRemote
                      THEN r.res \/ needsRebuild(buildCache, r.gs.lastCommitHash)
                      ELSE TRUE
           me == caller("refresh")
       IN  /\ gitSync' = r.gs
           /\ IF doBuild THEN runBuild(me, spawnOk) ELSE UNCHANGED buildVars
           /\ resp' = IF doBuild /\ awaitsBuild(spawnOk)
                      THEN pending(me, NoReq)
                      ELSE respond(me, NoReq, <<>>, 200, "Refresh complete",
                                   NoFile, NoCommit, NoTime)
    /\ UNCHANGED <<watchVars, importVars, registryVars, program, mainPc, upstream, built, isRemote, secretSet,
                   serversTree, dist, buildCache, dynamicVars>>

\* POST /webhook (server.cjs:198-251), from the end of the body on.  Only
\* the rebuild path runs git or spawns, so only there can a fault occur.
handleWebhook(r, fault) ==
    /\ program = "static"
    /\ mainPc = "serving"
    /\ LET body == accumulateBody(r.chunks)
           me == caller("webhook")
           branch == branchOf(r.payload.ref)
           p == pull(gitSync, fault # "reset")
           spawnOk == fault # "spawn"
       IN  IF ~validateWebhookSignature(body, r.sig)
           THEN /\ fault = "none"
                /\ resp' = respond(me, r, <<>>, 403, "Invalid signature", NoFile,
                                   NoCommit, NoTime)
                /\ UNCHANGED <<gitSync, buildVars>>
           ELSE IF ~r.payload.json
           THEN /\ fault = "none"
                /\ resp' = respond(me, r, <<>>, 500, "Webhook processing failed",
                                   NoFile, NoCommit, NoTime)
                /\ UNCHANGED <<gitSync, buildVars>>
           ELSE IF webhookTriggers(branch)
           THEN /\ gitSync' = p.gs
                /\ runBuild(me, spawnOk)
                /\ resp' = IF awaitsBuild(spawnOk)
                           THEN pending(me, r)
                           ELSE respond(me, r, <<>>, 200, "Rebuild triggered",
                                        NoFile, p.gs.lastCommitHash, NoTime)
           ELSE /\ fault = "none"
                /\ resp' = respond(me, r, <<>>, 200, "Ignored", NoFile, NoCommit,
                                   NoTime)
                /\ UNCHANGED <<gitSync, buildVars>>
    /\ UNCHANGED <<watchVars, importVars, registryVars, program, mainPc, upstream, built, isRemote, secretSet,
                   serversTree, dist, buildCache, dynamicVars>>

\* GET /_status (server.cjs:256-269).
handleStatus ==
    /\ program = "static"
    /\ mainPc = "serving"
    /\ resp' = respond(caller("status"), NoReq, <<>>, 200, "ok", NoFile,
                       gitSync.lastCommitHash, buildCache.lastBuild)
    /\ UNCHANGED <<watchVars, importVars, registryVars, program, mainPc, upstream, inFlight, passes, passInfo, built,
                   staticVars, dynamicVars>>

\* GET of any other path (server.cjs:319-338).
HandleGet(urlPath) ==
    /\ program = "static"
    /\ mainPc = "serving"
    /\ LET got == serveFile(urlPath, dist)
       IN  resp' = respond(caller("get"), NoReq, urlPath, got.status,
                           IF got.status = 200 THEN "ok" ELSE "Not found",
                           got.val, NoCommit, NoTime)
    /\ UNCHANGED <<watchVars, importVars, registryVars, program, mainPc, upstream, inFlight, passes, passInfo, built,
                   staticVars, dynamicVars>>

\* A push to the tracked branch of the remote repository.
UpstreamPush ==
    /\ mainPc # "exited"
    /\ program = "static" => isRemote
    /\ upstream < MaxCommit
    /\ upstream' = upstream + 1
    /\ resp' = NoResp
    /\ UNCHANGED <<watchVars, importVars, registryVars, program, mainPc, inFlight, passes, passInfo, built,
                   staticVars, dynamicVars>>

\* An edit of the files under the local servers/ directory (the operator of
\* a remote-mode server edits the repository instead).
EditLocal ==
    /\ program = "static"
    /\ ~isRemote
    /\ mainPc # "exited"
    /\ serversTree < MaxEdit
    /\ serversTree' = serversTree + 1
    /\ resp' = NoResp
    /\ UNCHANGED <<watchVars, importVars, registryVars, program, mainPc, upstream, inFlight, passes, passInfo, built,
                   isRemote, secretSet, gitSync, isBuilding, child, dist,
                   buildCache, waiter, dynamicVars>>

StaticInit ==
    /\ program = "static"
    /\ isRemote \in BOOLEAN
    /\ secretSet \in BOOLEAN
    /\ mainPc = "start"
    /\ upstream = 1
    /\ gitSync = [lastCommitHash |-> NoCommit, originHead |-> NoCommit]
    /\ serversTree = 1
    /\ isBuilding = FALSE
    /\ child = NoChild
    /\ inFlight = 0
    /\ dist \in {[exists |-> FALSE, files |-> NoFiles],
                 [exists |-> TRUE, files |-> OldFiles]}
    /\ buildCache = IF isRemote /\ dist.exists
                    THEN [lastCommit |-> 1, lastBuild |-> PriorTime]
                    ELSE [lastCommit |-> NoCommit, lastBuild |-> NoTime]
    /\ built = IF buildCache.lastCommit = NoCommit THEN {}
               ELSE {[src |-> OldContent, head |-> 1]}
    /\ waiter = NoWaiter
    /\ passes = 0
    /\ passInfo = [outcome |-> "none", before |-> dist]
    /\ resp = NoResp
    /\ serverCache = NoCache
    /\ pass = NoPass
    /\ RegistryIdle
    /\ ImportIdle
    /\ WatchIdle

StaticNext ==
    \/ \E fault \in StartupFaults : Startup(fault)
    \/ ChildClean
    \/ ChildRead
    \/ ChildWrite
    \/ \E code \in {0, 1} : BuildClose(code)
    \/ \E fault \in PollFaults : PollTick(fault)
    \/ \E fault \in PollFaults : HandleRefresh(fault)
    \/ \E r \in WebhookRequests, fault \in WebhookFaults : handleWebhook(r, fault)
    \/ handleStatus
    \/ \E urlPath \in RequestPaths : HandleGet(urlPath)
    \/ EditLocal
    \/ GitBlocks

\* ================================== dynamic-server.js and github-source.js

\* findJsonFilesOnGitHub (github-source.js:185-202): the JSON files under
\* servers/ of the repository, in listing order.
findJsonFilesOnGitHub == <<"servers/a.json", "servers/b.json">>
NumFiles == Len(findJsonFilesOnGitHub)

\* loadServerFileFromGitHub (github-source.js:230-268): the entries of one file
\* as it is at commit head of the branch.
loadServerFileFromGitHub(file, head) == <<[file |-> file, rev |-> head]>>

\* What a request for one file can come to: the entries; a throw of fetchGitHub
\* (github-source.js:156-175: network error or non-success status); a throw
\* of JSON.parse or of the validation (github-source.js:218, 267, 275-283).
FileOutcomes == {"ok", "fetchError", "invalid"}

\* The loop body of fetchServersFromGitHub (github-source.js:308-318): the
\* entries of a loaded file are appended; a throw is logged and the file skipped.
loadInto(servers, file, head, outcome) ==
    IF outcome = "ok"
    THEN servers \o loadServerFileFromGitHub(file, head)
    ELSE servers

\* refreshCache, the try block after the await (dynamic-server.js:139-141).
refreshSucceeded(cache, servers, now) ==
    [servers |-> servers, lastRefresh |-> now, refreshing |-> FALSE]

\* A catch block that drops the cache.
refreshFailedClears(cache) == NoCache

\* refreshCache, catch and finally (dynamic-server.js:142-147).
refreshFailed(cache) ==
    [cache EXCEPT !.refreshing = FALSE]

refreshVars == <<serverCache, pass, inFlight, waiter, passes, passInfo>>

\* refreshCache without the refreshing test of dynamic-server.js:124-127.
refreshCacheUnguarded(who) ==
    /\ passes < MaxRefreshes
    /\ serverCache' = [serverCache EXCEPT !.refreshing = TRUE]
    /\ pass' = [pc |-> "listing", next |-> 1, servers |-> <<>>]
    /\ inFlight' = inFlight + 1
    /\ waiter' = who
    /\ passes' = passes + 1
    /\ passInfo' = [outcome |-> "running", fetchFailed |-> FALSE,
                    before |-> [servers |-> serverCache.servers,
                                lastRefresh |-> serverCache.lastRefresh]]

\* refreshCache (dynamic-server.js:123-137) up to its await.
refreshCache(who) ==
    IF serverCache.refreshing
    THEN UNCHANGED refreshVars
    ELSE /\ passes < MaxRefreshes
         /\ serverCache' = [serverCache EXCEPT !.refreshing = TRUE]
         /\ pass' = [pc |-> "listing", next |-> 1, servers |-> <<>>]
         /\ inFlight' = inFlight + 1
         /\ waiter' = who
         /\ passes' = passes + 1
         /\ passInfo' = [outcome |-> "running", fetchFailed |-> FALSE,
                         before |-> [servers |-> serverCache.servers,
                                     lastRefresh |-> serverCache.lastRefresh]]

\* getServersList (dynamic-server.js:160-173) / the body of the /_refresh
\* answer (dynamic-server.js:226-227), from the cache as it is.
listResponse(me, cache, msg) ==
    respond(me, NoReq, <<>>, 200, msg, cache.servers, NoCommit, cache.lastRefresh)

\* refreshCache after its await (dynamic-server.js:139-147), followed by the
\* continuation of its caller: main goes on to listen (dynamic-server.js:
\* 331-345), the /_refresh handler answers (dynamic-server.js:225-228).
endRefresh(cache, outcome, fetchFailed) ==
    /\ serverCache' = cache
    /\ pass' = NoPass
    /\ inFlight' = inFlight - 1
    /\ waiter' = NoWaiter
    /\ passInfo' = [passInfo EXCEPT !.outcome = outcome,
                                    !.fetchFailed = fetchFailed]
    /\ mainPc' = IF waiter.op = "startup" THEN "serving" ELSE mainPc
    /\ resp' = IF waiter.op = "refresh"
               THEN listResponse(waiter, cache, "refreshed")
               ELSE NoResp

\* main (dynamic-server.js:323-331): await refreshCache() before anything else.
DynamicStartup ==
    /\ program = "dynamic"
    /\ mainPc = "start"
    /\ refreshCache(caller("startup"))
    /\ mainPc' = "building"
    /\ resp' = NoResp
    /\ UNCHANGED <<watchVars, importVars, registryVars, program, upstream, built, staticOnly>>

\* fetchServersFromGitHub (github-source.js:294-303): the tree listing.  A
\* throw here leaves the function and is caught by refreshCache.
FetchListing(ok) ==
    /\ program = "dynamic"
    /\ pass.pc = "listing"
    /\ IF ok
       THEN /\ pass' = [pass EXCEPT !.pc = "files"]
            /\ resp' = NoResp
            /\ UNCHANGED <<serverCache, inFlight, waiter, passInfo, mainPc>>
       ELSE endRefresh(refreshFailed(serverCache), "failed", TRUE)
    /\ UNCHANGED <<watchVars, importVars, registryVars, program, upstream, passes, built, staticOnly>>

\* fetchServersFromGitHub (github-source.js:306-320): one round of the loop;
\* after the last file the function returns and refreshCache publishes.
FetchFile(outcome) ==
    /\ program = "dynamic"
    /\ pass.pc = "files"
    /\ LET servers == loadInto(pass.servers, findJsonFilesOnGitHub[pass.next],
                               upstream, outcome)
           failed == passInfo.fetchFailed \/ outcome = "fetchError"
       IN  IF pass.next < NumFiles
           THEN /\ pass' = [pass EXCEPT !.next = pass.next + 1,
                                        !.servers = servers]
                /\ passInfo' = [passInfo EXCEPT !.fetchFailed = failed]
                /\ resp' = NoResp
                /\ UNCHANGED <<serverCache, inFlight, waiter, mainPc>>
           ELSE endRefresh(refreshSucceeded(serverCache, servers, passes),
                           "ok", failed)
    /\ UNCHANGED <<watchVars, importVars, registryVars, program, upstream, passes, built, staticOnly>>

\* The interval timer (dynamic-server.js:334): setInterval(refreshCache, ...).
RefreshTimer ==
    /\ program = "dynamic"
    /\ mainPc = "serving"
    /\ refreshCache(caller("timer"))
    /\ resp' = NoResp
    /\ UNCHANGED <<watchVars, importVars, registryVars, program, mainPc, upstream, built, staticOnly>>

\* POST /_refresh (dynamic-server.js:223-230): with a pass in flight
\* refreshCache returns at once and the handler answers from the cache.
DynamicRefresh ==
    /\ program = "dynamic"
    /\ mainPc = "serving"
    /\ refreshCache(caller("refresh"))
    /\ resp' = IF serverCache.refreshing
               THEN listResponse(caller("refresh"), serverCache, "refreshed")
               ELSE pending(caller("refresh"), NoReq)
    /\ UNCHANGED <<watchVars, importVars, registryVars, program, mainPc, upstream, built, staticOnly>>

\* GET /v0.1/servers (dynamic-server.js:232-238).
DynamicList ==
    /\ program = "dynamic"
    /\ mainPc = "serving"
    /\ resp' = listResponse(caller("list"), serverCache, "list")
    /\ UNCHANGED <<watchVars, importVars, registryVars, program, mainPc, upstream, inFlight, passes, passInfo, built,
                   staticVars, dynamicVars>>

\* GET /_status (dynamic-server.js:210-221).  With lastRefresh null
\* new Date(undefined + REFRESH_INTERVAL).toISOString() throws a RangeError
\* in the request handler, which ends the process.
DynamicStatus ==
    /\ program = "dynamic"
    /\ mainPc = "serving"
    /\ IF serverCache.lastRefresh = NoTime
       THEN /\ mainPc' = "exited"
            /\ pass' = NoPass
            /\ inFlight' = 0
            /\ waiter' = NoWaiter
            /\ resp' = NoResp
            /\ UNCHANGED serverCache
       ELSE /\ resp' = listResponse(caller("status"), serverCache, "ok")
            /\ UNCHANGED <<mainPc, pass, inFlight, waiter, serverCache>>
    /\ UNCHANGED <<watchVars, importVars, registryVars, program, upstream, passes, passInfo, built, staticOnly>>

DynamicInit ==
    /\ program = "dynamic"
    /\ isRemote = TRUE
    /\ secretSet = FALSE
    /\ mainPc = "start"
    /\ upstream = 1
    /\ gitSync = [lastCommitHash |-> NoCommit, originHead |-> NoCommit]
    /\ serversTree = 1
    /\ isBuilding = FALSE
    /\ child = NoChild
    /\ inFlight = 0
    /\ dist = [exists |-> FALSE, files |-> NoFiles]
    /\ buildCache = [lastCommit |-> NoCommit, lastBuild |-> NoTime]
    /\ built = {}
    /\ waiter = NoWaiter
    /\ passes = 0
    /\ passInfo = [outcome |-> "none", fetchFailed |-> FALSE,
                   before |-> [servers |-> <<>>, lastRefresh |-> NoTime]]
    /\ resp = NoResp
    /\ serverCache = NoCache
    /\ pass = NoPass
    /\ RegistryIdle
    /\ ImportIdle
    /\ WatchIdle

DynamicNext ==
    \/ DynamicStartup
    \/ \E ok \in BOOLEAN : FetchListing(ok)
    \/ \E outcome \in FileOutcomes : FetchFile(outcome)
    \/ RefreshTimer
    \/ DynamicRefresh
    \/ DynamicList
    \/ DynamicStatus

Init == StaticInit \/ DynamicInit
Next == StaticNext \/ DynamicNext \/ UpstreamPush
Spec == Init /\ [][Next]_vars

\* ===================================== one build, one cache load: the data
\* RegistrySpec follows the entries themselves through one run of build.js
\* served by server.cjs (program "static") and through one load of the cache
\* of dynamic-server.js (program "dynamic"), for every set of entry files
\* drawn from the shapes below.

\* Longest versions array of an entry file.
MaxVersions == 2

Foo == <<"io.example", "foo">>
Bar == <<"io.example", "bar">>
Invalid == <<"invalid">>

Package(type, url) ==
    [registryType |-> "npm", identifier |-> "pkg",
     transport |-> [type |-> type, url |-> url]]
StdioPackages == Arr(<<Package("stdio", "")>>)
SsePackagesNoUrl == Arr(<<Package("sse", "")>>)

VersionStrings == {"1.0.0", "2.0.0"}
VersionRecords ==
    {VersionRecord(v, l, StdioPackages) : v \in VersionStrings, l \in BOOLEAN}
VersionLists == UNION {[1..n -> VersionRecords] : n \in 0..MaxVersions}

\* Objects named io.example/foo of every shape: versioned, flat, both,
\* neither.
ShapeObjects ==
    {RawObject(Foo, "x", "", Absent, Arr(vs)) : vs \in VersionLists}
    \cup {RawObject(Foo, "x", "1.0.0", pk, Absent) :
            pk \in {StdioPackages, Arr(<<>>)}}
    \cup {RawObject(Foo, "x", "1.0.0", StdioPackages,
                    Arr(<<VersionRecord("2.0.0", FALSE, StdioPackages)>>)),
          RawObject(Foo, "x", "1.0.0", Absent, Absent),
          RawObject(Foo, "x", "", Absent, Absent)}

Versioned(name, description, version, packages) ==
    RawObject(name, description, "", Absent,
              Arr(<<VersionRecord(version, TRUE, packages)>>))

\* Objects that differ in name, description and transport.
MixObjects ==
    {Versioned(Foo, "x", "1.0.0", StdioPackages),
     Versioned(Foo, "y", "2.0.0", StdioPackages),
     Versioned(Bar, "x", "1.0.0", StdioPackages),
     Versioned(Bar, "", "1.0.0", StdioPackages),
     Versioned(NoName, "x", "1.0.0", StdioPackages),
     Versioned(Invalid, "x", "1.0.0", StdioPackages),
     Versioned(Bar, "x", "1.0.0", SsePackagesNoUrl)}

\* The entry files of one run, in discovery order.
InputFiles ==
    {<<SingleFile(a)>> : a \in ShapeObjects}
    \cup {<<ContainerFile(<<a>>)>> : a \in ShapeObjects}
    \cup {<<SingleFile(a), SingleFile(b)>> : a \in MixObjects, b \in MixObjects}
    \cup {<<ContainerFile(<<a, b>>)>> : a \in MixObjects, b \in MixObjects}

\* GET requests: an entry in both spellings, the lists, an unknown path and
\* a path with a stray "%".
VersionPath(prefix, name, v) ==
    <<<<prefix>>, <<"servers">>, <<name[1]>>, <<name[2]>>, <<"versions">>, <<v>>>>
EncodedVersionPath(prefix, name, v) ==
    <<<<prefix>>, <<"servers">>, <<name[1], "%2F", name[2]>>, <<"versions">>, <<v>>>>
ApiVersionPath(name, v) ==
    <<<<"api">>, <<"v0.1">>, <<"servers">>, <<name[1], "%2F", name[2]>>,
      <<"versions">>, <<v>>>>
Prefixes == {"v0", "v0.1"}
VersionIds == VersionStrings \cup {"latest"}
Requests ==
    {VersionPath(x, Foo, v) : x \in Prefixes, v \in VersionIds}
    \cup {EncodedVersionPath(x, Foo, v) : x \in Prefixes, v \in VersionIds}
    \cup {VersionPath("v0.1", Bar, "latest"),
          EncodedVersionPath("v0.1", Bar, "latest"),
          <<<<"v0.1">>, <<"servers">>>>,
          <<<<"v0.1">>, <<"servers">>, <<"io.example">>, <<"foo">>, <<"versions">>>>,
          <<<<"api">>, <<"v0.1">>, <<"servers">>>>,
          ApiVersionPath(Foo, "latest"),
          <<<<"nothing">>>>,
          <<<<"%">>>>}

\* The readings of the clock at which it may tick during a build: up to two
\* entries, each with up to MaxVersions versions.
TickPoints == 1..(2 * readingsOf(RawObject(Foo, "x", "", Absent,
                      Arr([i \in 1..MaxVersions |-> 0]))) + 5)

\* The times at which the dynamic server answers.
RequestTimes == {1, 2}

coordinatorVars == <<mainPc, upstream, inFlight, passes, passInfo, built, resp,
                     staticVars, dynamicVars>>

RegistryInit ==
    /\ program \in {"static", "dynamic"}
    /\ source \in IF program = "static" THEN {"local", "github"} ELSE {"github"}
    /\ rawFiles \in InputFiles
    /\ entries = <<>>
    /\ outDir = NoDir
    /\ stage = "start"
    /\ answer = NoAnswer
    /\ ImportIdle
    /\ WatchIdle
    /\ isRemote = (source = "github")
    /\ secretSet = FALSE
    /\ mainPc = "start"
    /\ upstream = 1
    /\ gitSync = [lastCommitHash |-> NoCommit, originHead |-> NoCommit]
    /\ serversTree = 1
    /\ isBuilding = FALSE
    /\ child = NoChild
    /\ inFlight = 0
    /\ dist = [exists |-> FALSE, files |-> NoFiles]
    /\ buildCache = [lastCommit |-> NoCommit, lastBuild |-> NoTime]
    /\ built = {}
    /\ waiter = NoWaiter
    /\ passes = 0
    /\ passInfo = [outcome |-> "none", before |-> dist]
    /\ resp = NoResp
    /\ serverCache = NoCache
    /\ pass = NoPass

\* build (cli.test.js:675-705) and refreshCache (dynamic-server.js:132-139):
\* the entries are loaded; the build sorts them, the cache keeps them in
\* discovery order.
LoadEntries ==
    /\ stage = "start"
    /\ entries' = IF program = "dynamic" THEN fetchServersData(rawFiles)
                  ELSE loadServers(source, rawFiles)
    /\ stage' = "loaded"
    /\ UNCHANGED <<program, source, rawFiles, outDir, answer, coordinatorVars, importVars, watchVars>>

\* build (cli.test.js:707-795): the views are written while the clock runs.
WriteViews(tickAt) ==
    /\ program = "static"
    /\ stage = "loaded"
    /\ tickAt <= readingsIn(entries) + 1
    /\ outDir' = buildViews(entries, tickAt)
    /\ stage' = IF \E j \in 1..Len(entries) : hasNoLatest(entries[j])
                THEN "failed" ELSE "built"
    /\ UNCHANGED <<program, source, rawFiles, entries, answer, coordinatorVars, importVars, watchVars>>

\* server.cjs:319-338: a GET answered from the dist directory.
StaticGet(req) ==
    /\ program = "static"
    /\ stage \in {"built", "failed"}
    /\ answer' = staticAnswer(req, outDir)
    /\ UNCHANGED <<program, source, rawFiles, entries, outDir, stage,
                   coordinatorVars, importVars, watchVars>>

\* handleRequest (dynamic-server.js:185-299): a GET answered from the cache;
\* an exception that leaves the handler ends the process.
DynamicGet(req, now) ==
    /\ program = "dynamic"
    /\ stage = "loaded"
    /\ LET r == handleRequest(req, entries, now)
       IN  IF r.ok
           THEN answer' = r.val /\ UNCHANGED stage
           ELSE answer' = NoAnswer /\ stage' = "crashed"
    /\ UNCHANGED <<program, source, rawFiles, entries, outDir, coordinatorVars, importVars, watchVars>>

RegistryNext ==
    \/ LoadEntries
    \/ \E tickAt \in TickPoints : WriteViews(tickAt)
    \/ \E req \in Requests : StaticGet(req)
    \/ \E req \in Requests, now \in RequestTimes : DynamicGet(req, now)

RegistrySpec == RegistryInit /\ [][RegistryNext]_vars

\* ============================================ the import command (import.js)

MaxImports == 2

\* b.version.localeCompare(a.version, undefined, {numeric: true})
\* (import.js:240) on the version strings used: digit runs compare as numbers.
numericOrder == <<"1.0.0", "2.0.0", "10.0.0">>
numericRank(version) ==
    CHOOSE i \in 1..Len(numericOrder) : numericOrder[i] = version

versionsIn(list) == {list[i].version : i \in 1..Len(list)}

\* The record a Map keeps for a key set several times: the last one.
lastOf(list, version) ==
    list[CHOOSE i \in 1..Len(list) :
            /\ list[i].version = version
            /\ \A k \in (i + 1)..Len(list) : list[k].version # version]

\* v.packages || []
packagesOrEmpty(v) == IF v.packages.def THEN v.packages ELSE Arr(<<>>)

\* Array.from(versionMap.values()).sort(...) (import.js:239-241): the keys,
\* newest first.
newestFirst(keys) ==
    [i \in 1..Cardinality(keys) |->
        CHOOSE v \in keys :
            Cardinality({w \in keys : numericRank(w) > numericRank(v)}) = i - 1]

\* mergeVersions with the two loops exchanged: an existing record replaces
\* the incoming one of the same version.
mergeVersionsExistingWins(existingVersions, newVersionsData) ==
    LET keys == versionsIn(existingVersions) \cup versionsIn(newVersionsData)
        kept(v) ==
            IF v \in versionsIn(existingVersions)
            THEN lastOf(existingVersions, v)
            ELSE VersionRecord(v, FALSE,
                     packagesOrEmpty(lastOf(newVersionsData, v)))
        order == newestFirst(keys)
    IN  [i \in 1..Len(order) |-> [kept(order[i]) EXCEPT !.isLatest = (i = 1)]]

\* mergeVersions without the final forEach: the records keep the isLatest
\* they came with.
mergeVersionsUnmarked(existingVersions, newVersionsData) ==
    LET keys == versionsIn(existingVersions) \cup versionsIn(newVersionsData)
        kept(v) ==
            IF v \in versionsIn(newVersionsData)
            THEN VersionRecord(v, FALSE,
                     packagesOrEmpty(lastOf(newVersionsData, v)))
            ELSE lastOf(existingVersions, v)
        order == newestFirst(keys)
    IN  [i \in 1..Len(order) |-> kept(order[i])]

\* mergeVersions (import.js:222-250)
mergeVersions(existingVersions, newVersionsData) ==
    LET keys == versionsIn(existingVersions) \cup versionsIn(newVersionsData)
        kept(v) ==
            IF v \in versionsIn(newVersionsData)
            THEN VersionRecord(v, FALSE,
                     packagesOrEmpty(lastOf(newVersionsData, v)))
            ELSE lastOf(existingVersions, v)
        order == newestFirst(keys)
    IN  [i \in 1..Len(order) |-> [kept(order[i]) EXCEPT !.isLatest = (i = 1)]]

\* buildServerObject (import.js:41-54)
buildServerObject(serverData, versions) ==
    RawObject(serverData.name, serverData.description, "", Absent,
        Arr([i \in 1..Len(versions) |->
            VersionRecord(versions[i].version, i = 1,
                packagesOrEmpty(versions[i]))]))

\* loadExistingFile (import.js:71-84)
loadExistingFile(file) ==
    IF file = NoTarget THEN [format |-> "none"]
    ELSE IF file.servers.def THEN [format |-> "multi", data |-> file]
    ELSE [format |-> "single", data |-> file.data]

\* servers.findIndex(s => s.name === serverName); 0 stands for -1.
findIndex(servers, serverName) ==
    IF \E i \in 1..Len(servers) : servers[i].name = serverName
    THEN CHOOSE i \in 1..Len(servers) :
            /\ servers[i].name = serverName
            /\ \A k \in 1..(i - 1) : servers[k].name # serverName
    ELSE 0

\* data.versions || []
versionsOrEmpty(data) == IF data.versions.def THEN data.versions.val ELSE <<>>

Outcome(file, note, existingVersions, versionsData) ==
    [file |-> file, note |-> note,
     merged |-> [existing |-> existingVersions, incoming |-> versionsData,
                 result |-> mergeVersions(existingVersions, versionsData)]]

\* importCommand with the conversion branch writing the new server alone.
importCommandOverwrite(file, serverName, versionsData, asFile) ==
    LET newServer == buildServerObject(versionsData[1],
                         mergeVersions(<<>>, versionsData))
    IN  IF versionsData = <<>>
        THEN [file |-> file, note |-> "No versions found", merged |-> NoMerge]
        ELSE Outcome(SingleFile(newServer), "Imported", <<>>, versionsData)

\* importCommand (import.js:89-216): the file written at outputPath, the
\* message printed, and the last mergeVersions call made.
importCommand(file, serverName, versionsData, asFile) ==
    LET existing == loadExistingFile(file)
        serverData == versionsData[1]
        newServer == buildServerObject(serverData,
                         mergeVersions(<<>>, versionsData))
    IN  IF versionsData = <<>>
        THEN [file |-> file, note |-> "No versions found", merged |-> NoMerge]
        ELSE IF existing.format = "multi"
        THEN LET servers == existing.data.servers.val
                 existingIndex == findIndex(servers, serverName)
             IN  IF existingIndex > 0
                 THEN LET old == versionsOrEmpty(servers[existingIndex])
                      IN  Outcome(ContainerFile([servers EXCEPT
                                  ![existingIndex] = buildServerObject(serverData,
                                      mergeVersions(old, versionsData))]),
                              "Updated existing server in multi-server file",
                              old, versionsData)
                 ELSE Outcome(ContainerFile(Append(servers, newServer)),
                          "Added to existing multi-server file",
                          <<>>, versionsData)
        ELSE IF existing.format = "single"
        THEN IF existing.data.name = serverName
             THEN LET old == versionsOrEmpty(existing.data)
                  IN  Outcome(SingleFile(buildServerObject(serverData,
                                  mergeVersions(old, versionsData))),
                          "Merged with existing server file", old, versionsData)
             ELSE Outcome(ContainerFile(<<existing.data, newServer>>),
                      "Converted to multi-server file", <<>>, versionsData)
        ELSE IF asFile
        THEN Outcome(ContainerFile(<<newServer>>), "Imported", <<>>,
                 versionsData)
        ELSE Outcome(SingleFile(newServer), "Imported", <<>>, versionsData)

\* The files found at outputPath and the versions the registry returns.
P1 == StdioPackages
P2 == SsePackagesNoUrl
FooOld ==
    RawObject(Foo, "x", "", Absent,
        Arr(<<VersionRecord("2.0.0", TRUE, P1),
              VersionRecord("1.0.0", FALSE, P1)>>))
BarOld ==
    RawObject(Bar, "x", "", Absent, Arr(<<VersionRecord("1.0.0", TRUE, P1)>>))
FooFlat == RawObject(Foo, "x", "1.0.0", P1, Absent)
ExistingFiles ==
    {NoTarget, SingleFile(FooOld), SingleFile(BarOld), SingleFile(FooFlat),
     ContainerFile(<<BarOld>>), ContainerFile(<<BarOld, FooOld>>)}
ImportNames == {Foo, Bar}
IncomingRecords(serverName) ==
    {RawObject(serverName, "y", "2.0.0", P2, Absent),
     RawObject(serverName, "y", "10.0.0", P2, Absent),
     RawObject(serverName, "y", "1.0.0", Absent, Absent)}
IncomingLists(serverName) ==
    {<<>>} \cup {<<a>> : a \in IncomingRecords(serverName)}
           \cup {<<a, b>> : a, b \in IncomingRecords(serverName)}

CoordinatorIdle ==
    /\ isRemote = FALSE
    /\ secretSet = FALSE
    /\ mainPc = "start"
    /\ upstream = 1
    /\ gitSync = [lastCommitHash |-> NoCommit, originHead |-> NoCommit]
    /\ serversTree = 1
    /\ isBuilding = FALSE
    /\ child = NoChild
    /\ inFlight = 0
    /\ dist = [exists |-> FALSE, files |-> NoFiles]
    /\ buildCache = [lastCommit |-> NoCommit, lastBuild |-> NoTime]
    /\ built = {}
    /\ waiter = NoWaiter
    /\ passes = 0
    /\ passInfo = [outcome |-> "none", before |-> dist]
    /\ resp = NoResp
    /\ serverCache = NoCache
    /\ pass = NoPass

ImportInit ==
    /\ program = "import"
    /\ RegistryIdle
    /\ CoordinatorIdle
    /\ WatchIdle
    /\ outputFile \in ExistingFiles
    /\ priorFile = outputFile
    /\ imported = NoImport
    /\ merged = NoMerge
    /\ imports = 0

\* importCommand (import.js:89-216): one run of the command on the file at
\* outputPath; --file names the file, otherwise the default path is used.
Import(serverName, versionsData, asFile) ==
    /\ program = "import"
    /\ imports < MaxImports
    /\ versionsData \in IncomingLists(serverName)
    /\ LET done == importCommand(outputFile, serverName, versionsData, asFile)
       IN  /\ outputFile' = done.file
           /\ merged' = done.merged
           /\ imported' = [serverName |-> serverName,
                           versionsData |-> versionsData, note |-> done.note]
    /\ priorFile' = outputFile
    /\ imports' = imports + 1
    /\ UNCHANGED <<program, registryVars, coordinatorVars, watchVars>>

ImportNext ==
    \E serverName \in ImportNames, asFile \in BOOLEAN :
        \E versionsData \in IncomingLists(Foo) \cup IncomingLists(Bar) :
            Import(serverName, versionsData, asFile)

ImportSpec == ImportInit /\ [][ImportNext]_vars

\* ============================== the static server in remote mode, no faults

\* server.cjs with MCP_REGISTRY_REPO set, when every git command and every
\* build succeeds.  The poll timer is a setInterval (git-sync.cjs:155), the
\* child process runs to its end and its close event is delivered
\* (server.cjs:157), main() runs on (server.cjs:345-379): these steps are
\* taken whenever they stay possible.
RemoteInit == StaticInit /\ isRemote

RemoteNext ==
    \/ Startup("none")
    \/ ChildClean
    \/ ChildRead
    \/ ChildWrite
    \/ BuildClose(0)
    \/ PollTick("none")
    \/ HandleRefresh("none")
    \/ \E r \in WebhookRequests : handleWebhook(r, "none")
    \/ UpstreamPush

RemoteFairness ==
    /\ WF_vars(Startup("none"))
    /\ WF_vars(ChildClean)
    /\ WF_vars(ChildRead)
    /\ WF_vars(ChildWrite)
    /\ WF_vars(BuildClose(0))
    /\ WF_vars(PollTick("none"))

RemoteSpec == RemoteInit /\ [][RemoteNext]_vars /\ RemoteFairness

\* ================================================= build.js in watch mode

\* build.js --watch (build.js:433-448): watch() awaits one build(), then
\* creates the chokidar watcher; its 'all' listener calls build() for every
\* event.  build() is an async function: it gives the thread up at each
\* await (rm, readFile, writeFile), so the steps of the calls that have not
\* returned interleave.  The calls are numbered in the order they are made.
MaxEvents == 2
MaxBuilds == 1 + MaxEvents

NewBuild == [pc |-> "spawned", read |-> NoSource, written |-> 0]

\* the calls of build() that have not returned
running == {k \in DOMAIN builds : builds[k].pc # "done"}

WatchInit ==
    /\ program = "watch"
    /\ RegistryIdle
    /\ CoordinatorIdle
    /\ ImportIdle
    /\ builds = <<>>

\* watch() up to its first await build() (build.js:433-437).
watch ==
    /\ program = "watch"
    /\ mainPc = "start"
    /\ mainPc' = "building"
    /\ builds' = <<NewBuild>>
    /\ inFlight' = 1
    /\ passes' = 1
    /\ UNCHANGED <<importVars, registryVars, program, upstream, passInfo, built, resp,
                   staticVars, dynamicVars>>

\* A file under servers/ or under web/ changes and the watcher's listener
\* runs (build.js:439-447): it calls build() whatever the earlier calls are
\* doing.
WatchedDirs == {"servers", "web"}

watcherOnAll(path) ==
    /\ program = "watch"
    /\ mainPc = "serving"
    /\ Len(builds) < MaxBuilds
    /\ serversTree' = IF path = "servers" THEN serversTree + 1 ELSE serversTree
    /\ builds' = Append(builds, NewBuild)
    /\ inFlight' = inFlight + 1
    /\ passes' = passes + 1
    /\ UNCHANGED <<importVars, registryVars, program, mainPc, upstream, passInfo, built, resp,
                   isRemote, secretSet, gitSync, isBuilding, child, dist,
                   buildCache, waiter, dynamicVars>>

\* build.js:181-186 in call k: rm -rf dist, then mkdir.
buildCleans(k) ==
    /\ program = "watch"
    /\ k \in DOMAIN builds
    /\ builds[k].pc = "spawned"
    /\ builds' = [builds EXCEPT ![k].pc = "cleaned"]
    /\ dist' = [exists |-> TRUE, files |-> NoFiles]
    /\ UNCHANGED <<importVars, registryVars, program, mainPc, upstream, inFlight, passes, passInfo, built, resp,
                   isRemote, secretSet, gitSync, serversTree, isBuilding, child,
                   buildCache, waiter, dynamicVars>>

\* build.js:188-207 in call k: find and load the server files.
buildLoads(k) ==
    /\ program = "watch"
    /\ k \in DOMAIN builds
    /\ builds[k].pc = "cleaned"
    /\ builds' = [builds EXCEPT ![k].pc = "writing",
                                ![k].read = LocalSource(serversTree)]
    /\ UNCHANGED <<importVars, registryVars, program, mainPc, upstream, inFlight, passes, passInfo, built, resp,
                   staticVars, dynamicVars>>

\* build.js:209-297 in call k: one writeJson call.
buildWrites(k) ==
    /\ program = "watch"
    /\ k \in DOMAIN builds
    /\ builds[k].pc = "writing"
    /\ builds[k].written < NumArtifacts
    /\ builds' = [builds EXCEPT ![k].written = builds[k].written + 1]
    /\ dist' = [exists |-> TRUE,
                files |-> [dist.files EXCEPT
                             ![ArtifactFiles[builds[k].written + 1]] = builds[k].read]]
    /\ UNCHANGED <<importVars, registryVars, program, mainPc, upstream, inFlight, passes, passInfo, built, resp,
                   isRemote, secretSet, gitSync, serversTree, isBuilding, child,
                   buildCache, waiter, dynamicVars>>

\* Call k of build() returns; after the first one watch() goes on to create
\* the watcher (build.js:437-442).
buildReturns(k) ==
    /\ program = "watch"
    /\ k \in DOMAIN builds
    /\ builds[k].pc = "writing"
    /\ builds[k].written = NumArtifacts
    /\ builds' = [builds EXCEPT ![k].pc = "done"]
    /\ inFlight' = inFlight - 1
    /\ mainPc' = IF k = 1 THEN "serving" ELSE mainPc
    /\ UNCHANGED <<importVars, registryVars, program, upstream, passes, passInfo, built, resp,
                   staticVars, dynamicVars>>

WatchNext ==
    \/ watch
    \/ \E path \in WatchedDirs : watcherOnAll(path)
    \/ \E k \in 1..MaxBuilds : buildCleans(k)
    \/ \E k \in 1..MaxBuilds : buildLoads(k)
    \/ \E k \in 1..MaxBuilds : buildWrites(k)
    \/ \E k \in 1..MaxBuilds : buildReturns(k)

WatchSpec == WatchInit /\ [][WatchNext]_vars

\* ================================================================== claims

\* C1: across every interleaving of the startup build, poll ticks, webhooks
\* and POST /_refresh, at most one build pass (static server) and at most one
\* refresh pass (dynamic server) is in flight at any time.
C1_SinglePassInFlight ==
    inFlight <= 1

\* A build is running and a webhook that asked for a rebuild meanwhile was
\* answered without a second build.
C1_Witness ==
    /\ program = "static"
    /\ inFlight = 1
    /\ resp.op = "webhook"
    /\ resp.busy
    /\ resp.msg = "Rebuild triggered"

\* C2: a POST /_refresh handled while the pass started by an earlier one is in
\* flight starts no pass, and the end of a pass starts none either (nothing is
\* queued): the two requests run exactly one pass.
C2_SecondRefreshStartsNoPass ==
    [][/\ (/\ resp'.op = "refresh"
           /\ isBuilding
           /\ \E fault \in PollFaults : HandleRefresh(fault))
          => (passes' = passes /\ inFlight' = inFlight /\ child' = child)
       /\ (resp'.op = "refresh" /\ serverCache.refreshing /\ DynamicRefresh)
          => (passes' = passes /\ inFlight' = inFlight /\ pass' = pass)
       /\ (inFlight' < inFlight) => (passes' = passes)]_vars

\* The pass started by one POST /_refresh is in flight and a second
\* POST /_refresh has been answered meanwhile.
C2_Witness ==
    /\ program = "dynamic"
    /\ inFlight = 1
    /\ waiter.op = "refresh"
    /\ resp.op = "refresh"
    /\ resp.busy

\* C3: after a build pass that failed, every request path that resolved to an
\* artifact before the pass resolves to the same artifact content.
C3_FailedBuildKeepsArtifacts ==
    (program = "static" /\ passInfo.outcome = "failed") =>
        \A p \in RequestPaths :
            serveFile(p, passInfo.before).status = 200 =>
                serveFile(p, dist) = serveFile(p, passInfo.before)

\* C4: after a refresh pass that failed, serverCache.servers and lastRefresh
\* are what they were before the pass, the refreshing flag is clear, and the
\* list requests handled afterwards are answered from the old entry set.
C4_FailedRefreshKeepsCache ==
    (program = "dynamic" /\ passInfo.outcome = "failed") =>
        /\ serverCache.servers = passInfo.before.servers
        /\ serverCache.lastRefresh = passInfo.before.lastRefresh
        /\ ~serverCache.refreshing
        /\ resp.op = "list" => resp.content = passInfo.before.servers

\* A refresh pass failed while the cache held entries, and a list request
\* was answered from them.
C4_Witness ==
    /\ program = "dynamic"
    /\ passInfo.outcome = "failed"
    /\ passInfo.before.servers # <<>>
    /\ resp.op = "list"
    /\ ~resp.busy
    /\ resp.content = passInfo.before.servers

\* C5: a GET handled while a build pass is in flight, for a path that resolved
\* to an artifact before the pass, is answered with that artifact or with the
\* one the pass produces, never with not-found.
C5_NoTornReads ==
    (/\ program = "static"
     /\ resp.op = "get"
     /\ resp.busy
     /\ serveFile(resp.path, passInfo.before).status = 200)
    => /\ resp.status = 200
       /\ resp.content \in
             {serveFile(resp.path, passInfo.before).val, child.read}

\* C6: whenever BuildCache.lastCommit names commit c, a build pass that read
\* its input while the clone was at commit c has completed successfully.
C6_MarkerNamesBuiltCommit ==
    (program = "static" /\ isRemote /\ buildCache.lastCommit # NoCommit) =>
        \E b \in built : b.head = buildCache.lastCommit

\* C7: in remote mode no build pass is started while the commit of the
\* current tree equals the commit recorded by the last successful build.
C7_NoBuildWhenCommitIsBuilt ==
    [][(program = "static" /\ isRemote /\ passes' = passes + 1) =>
          gitSync'.lastCommitHash # buildCache.lastCommit]_vars

\* C8: a refresh pass in which the fetch of the listing or of a file failed
\* publishes nothing: the live entry set after it is the set before it.
C8_FetchFailureAbortsPass ==
    (/\ program = "dynamic"
     /\ passInfo.outcome \in {"ok", "failed"}
     /\ passInfo.fetchFailed)
    => serverCache.servers = passInfo.before.servers

\* C9: a webhook is answered 403 exactly when a secret is configured and the
\* signature header is missing or differs from the HMAC of the raw body.
C9_RejectedExactlyOnBadSignature ==
    (program = "static" /\ resp.op = "webhook" /\ resp.req # NoReq) =>
        (resp.status = 403 <=>
            /\ secretSet
            /\ \/ resp.req.sig = NoSignature
               \/ resp.req.sig # hmacDigest("secret", rawBody(resp.req.chunks)))

VersionIdsOf(server) ==
    {server.versions.val[i].version : i \in 1..Len(server.versions.val)}
        \cup {"latest"}

C11_BothSpellingsResolveAlike ==
    \A j \in 1..Len(entries) : \A x \in Prefixes :
        \A v \in VersionIdsOf(entries[j]) :
            Len(entries[j].name) = 2 =>
                LET literal == VersionPath(x, entries[j].name, v)
                    encoded == EncodedVersionPath(x, entries[j].name, v)
                IN  /\ (program = "static" /\ stage = "built") =>
                        /\ resolveFilePath(pathOnly(literal), outDir)
                             = resolveFilePath(pathOnly(encoded), outDir)
                        /\ resolveFilePath(pathOnly(literal), outDir) # <<>>
                    /\ (program = "dynamic" /\ stage = "loaded") =>
                        \A now \in RequestTimes :
                            /\ handleRequest(literal, entries, now)
                                 = handleRequest(encoded, entries, now)
                            /\ (/\ findServer(entries, entries[j].name) = j
                                /\ entries[j].versions.val # <<>>)
                                => /\ handleRequest(literal, entries, now).ok
                                   /\ handleRequest(literal, entries, now)
                                          .val.status = 200

\* A version of io.example/foo has been served by the static server, and the
\* other spelling of the request gets the same file.
C11_Witness ==
    /\ program = "static" /\ stage = "built"
    /\ answer.status = 200
    /\ answer.body.kind = "envelope"
    /\ answer = staticAnswer(VersionPath("v0", Foo, "1.0.0"), outDir)
    /\ answer = staticAnswer(EncodedVersionPath("v0", Foo, "1.0.0"), outDir)

\* ------------------------------------------------------------------------
\* C12: a request for a path that matches no artifact and no control endpoint
\* is answered 404 with a JSON body that has an error member; no request
\* path makes an exception leave the handler or ends the process.
UnknownPaths == {<<<<"nothing">>>>, <<<<"%">>>>}

C12_UnknownPathAnswers404 ==
    [][\A req \in UnknownPaths :
          (StaticGet(req) \/ \E now \in RequestTimes : DynamicGet(req, now))
              => /\ stage' # "crashed"
                 /\ answer'.status = 404
                 /\ answer'.body.kind = "error"]_vars

\* ------------------------------------------------------------------------
\* C13: the response to POST /_refresh reports which outcome occurred
\* (rebuilt, no change, skipped because a pass was in progress): the answer
\* to a trigger that was dropped because a pass was in flight differs from
\* the answer given after a rebuild or refresh.
RefreshDone == {"Refresh complete", "refreshed"}

C13_DroppedRefreshIsReported ==
    (resp.op = "refresh" /\ resp.status = 200 /\ resp.busy)
        => resp.msg \notin RefreshDone

\* ------------------------------------------------------------------------
\* C14: the canonical entry set holds at most one entry per identifier: when
\* two raw objects carry the same identifier, the one discovered first is
\* kept and the later one is rejected.
C14_OneEntryPerIdentifier ==
    \A i \in 1..Len(entries) : \A j \in 1..Len(entries) :
        entries[i].name = entries[j].name => i = j

\* ------------------------------------------------------------------------
\* C15: after normalization every entry has exactly one version with
\* isLatest = true, whether the source flagged no version, one or several.
C15_ExactlyOneLatest ==
    \A j \in 1..Len(entries) :
        entries[j].versions.val # <<>> =>
            Cardinality({i \in 1..Len(entries[j].versions.val) :
                            entries[j].versions.val[i].isLatest}) = 1

\* ------------------------------------------------------------------------
\* C16: every entry of the canonical set has a versions array that is not
\* empty, for every input shape the loaders accept, elements of a container
\* file and objects with an empty versions array included.
C16_VersionsNeverEmpty ==
    \A j \in 1..Len(entries) :
        entries[j].versions.def /\ entries[j].versions.val # <<>>

\* ------------------------------------------------------------------------
\* C17: when a container file holds several elements and one of them is
\* invalid, the valid elements are still published; only the invalid one is
\* dropped.
acceptedAlone(element) ==
    IF source = "github" THEN validateServer(element)
    ELSE normalizeServer(element).ok

C17_ValidElementsSurvive ==
    stage \notin {"idle", "start"} =>
        \A f \in 1..Len(rawFiles) :
            \A k \in 1..Len(rawFiles[f].servers.val) :
                acceptedAlone(rawFiles[f].servers.val[k]) =>
                    \E j \in 1..Len(entries) :
                        /\ entries[j].name = rawFiles[f].servers.val[k].name
                        /\ entries[j].description
                             = rawFiles[f].servers.val[k].description

\* ------------------------------------------------------------------------
\* C18: an entry that lacks its identifier or its description, whose
\* identifier does not match
\* ^[a-z][a-z0-9-]*(\.[a-z][a-z0-9-]*)*/[a-z][a-z0-9-]*$, or that has a
\* package whose transport requires a url and has none, is rejected and
\* appears in no published view, while the other entries are published.

\* The identifier pattern (cli.test.js:222) on the identifiers used here,
\* whose segments are all dotted lower-case labels: exactly one separator.
matchesNamePattern(name) ==
    /\ Len(name) = 2
    /\ \A k \in 1..Len(name) : name[k] \in {"io.example", "foo", "bar", "invalid"}

\* Transports that need a url (mcp-server-importer.agent.md:345-351).
transportOk(transport) ==
    transport.type \in {"streamable-http", "sse"} => transport.url # ""

wellFormed(server) ==
    /\ server.name # NoName /\ server.description # ""
    /\ matchesNamePattern(server.name)
    /\ \A i \in 1..Len(server.versions.val) :
          \A k \in 1..Len(server.versions.val[i].packages.val) :
              transportOk(server.versions.val[i].packages.val[k].transport)

C18_MalformedEntriesRejected ==
    \A j \in 1..Len(entries) : wellFormed(entries[j])

\* ------------------------------------------------------------------------
\* C19: a flat-shape object (top-level version and packages, no versions
\* array) that is the object of an entry file normalizes to one entry with
\* exactly one version, which carries that version and those packages with
\* isLatest = true, in the local normalizer and in the remote one alike.
isFlatShape(file) ==
    /\ ~file.servers.def
    /\ file.data.name # NoName /\ file.data.description # ""
    /\ file.data.version # "" /\ file.data.packages.def
    /\ ~file.data.versions.def

flatEntry(data) ==
    RawObject(data.name, data.description, "", Absent,
              Arr(<<VersionRecord(data.version, TRUE, data.packages)>>))

firstFlagged(versions) ==
    IF \E i \in 1..Len(versions) : versions[i].isLatest
    THEN CHOOSE i \in 1..Len(versions) :
            /\ versions[i].isLatest
            /\ \A k \in 1..(i - 1) : ~versions[k].isLatest
    ELSE 1

addressable(j) ==
    /\ Len(entries[j].name) = 2
    /\ entries[j].versions.val # <<>>
    /\ \A k \in 1..Len(entries) : entries[k].name = entries[j].name => k = j
    /\ \A i \in 1..Len(entries[j].versions.val) :
          \A k \in 1..Len(entries[j].versions.val) :
              entries[j].versions.val[i].version
                  = entries[j].versions.val[k].version => i = k

undated(a) == [a EXCEPT !.body.updatedAt = 0]

ordinalOrder ==
    << <<"invalid">>, <<"io.example", "bar">>, <<"io.example", "foo">> >>
ordinalRank(name) == CHOOSE i \in 1..Len(ordinalOrder) : ordinalOrder[i] = name

ascending(items) ==
    \A i \in 1..Len(items) : \A k \in 1..Len(items) :
        i < k => ordinalRank(items[i].name) <= ordinalRank(items[k].name)

C21_SummaryListsSorted ==
    /\ (program = "static" /\ stage = "built") =>
         LET api == outDir.files[<<"api", "v0.1", "servers.json">>].servers
             wrapped == outDir.files[<<"v0.1", "servers", "index.json">>].servers
         IN  /\ Len(api) = Len(entries) /\ ascending(api)
             /\ Len(wrapped) = Len(entries) /\ ascending(wrapped)
    /\ (program = "dynamic" /\ stage = "loaded"
            /\ \A k \in 1..Len(entries) : ~hasNoLatest(entries[k])) =>
         \A now \in RequestTimes :
            LET live == getServersList(entries, now).val.body.servers
            IN  Len(live) = Len(entries) /\ ascending(live)

\* ------------------------------------------------------------------------
\* C22: running the view builder twice on the same canonical entry set, at
\* different times, yields the same artifact paths with identical contents,
\* except for the generation timestamp ('generated') of the summary list and
\* of the discovery document.
ungenerated(body) ==
    IF body.kind \in {"serverList", "discovery"}
    THEN [body EXCEPT !.generated = 0]
    ELSE body

C22_RebuildSameButGenerated ==
    (program = "static" /\ stage = "built") =>
        \A tickAt \in TickPoints :
            tickAt <= readingsIn(entries) + 1 =>
                LET again == buildViews(entries, tickAt)
                IN  /\ DOMAIN again.files = DOMAIN outDir.files
                    /\ \A p \in DOMAIN outDir.files :
                          ungenerated(again.files[p])
                              = ungenerated(outDir.files[p])

\* ------------------------------------------------------------------------
\* C23: after a build, for every artifact under the /v0 compatibility prefix
\* there is an artifact at the same relative path under /v0.1 with identical
\* content, and vice versa, including when the clock advances during the
\* build.
underPrefix(prefix, p) == <<prefix>> \o Tail(p)

C23_CompatPrefixesMirror ==
    (program = "static" /\ stage = "built") =>
        \A p \in DOMAIN outDir.files :
            /\ p[1] = "v0" =>
                  /\ underPrefix("v0.1", p) \in DOMAIN outDir.files
                  /\ outDir.files[underPrefix("v0.1", p)] = outDir.files[p]
            /\ p[1] = "v0.1" =>
                  /\ underPrefix("v0", p) \in DOMAIN outDir.files
                  /\ outDir.files[underPrefix("v0", p)] = outDir.files[p]

\* ------------------------------------------------------------------------
\* C24: after a build, the browsing index root lists exactly the identifiers
\* of the canonical entry set and each per-identifier index lists exactly
\* that entry's versions; decoding the identifier segment of any link gives
\* back the original identifier, and every per-version link target names an
\* existing version-detail artifact for that identifier and version.
RECURSIVE linkTarget(_, _)
linkTarget(dir, href) ==
    IF href = <<>> THEN dir
    ELSE IF rawText(href[1]) = ".."
    THEN linkTarget(SubSeq(dir, 1, Len(dir) - 1), Tail(href))
    ELSE linkTarget(Append(dir, rawText(href[1])), Tail(href))

simpleDirOf(name) == <<"api", "simple", encodeServerName(name)>>

versionStrings(versions) == [i \in 1..Len(versions) |-> versions[i].version]

C24_BrowsingIndexExact ==
    (program = "static" /\ stage = "built") =>
        LET files == outDir.files
            root == files[<<"api", "simple", "index.json">>]
            rootHtml == files[<<"api", "simple", "index.html">>]
        IN  /\ {root.servers[j].name : j \in DOMAIN root.servers}
                  = {entries[j].name : j \in 1..Len(entries)}
            /\ \A j \in DOMAIN root.servers :
                  /\ decodeSegment(root.servers[j].url[1], "")
                        = root.servers[j].name
                  /\ decodeSegment(rootHtml.links[j].href[1], "")
                        = rootHtml.links[j].text
            /\ \A j \in 1..Len(entries) :
                  LET dir == simpleDirOf(entries[j].name)
                      index == files[Append(dir, "index.json")]
                      html == files[Append(dir, "index.html")]
                  IN  /\ versionStrings(index.versions)
                            = versionStrings(entries[j].versions.val)
                      /\ \A i \in DOMAIN index.versions :
                            LET url == index.versions[i].url
                                target == linkTarget(dir, url)
                            IN  /\ html.links[i].href = url
                                /\ decodeSegment(url[5], "") = entries[j].name
                                /\ target \in DOMAIN files
                                /\ files[target].kind = "version"
                                /\ files[target].name = entries[j].name
                                /\ files[target].version
                                      = index.versions[i].version

\* ------------------------------------------------------------------------
\* C25: mergeVersions(existing, incoming) returns a list in which no two
\* records share a version string: a version string present in both lists
\* appears once with the incoming record's packages, a version string only in
\* incoming is added, and a version string only in existing is kept with its
\* packages unchanged.
packageList(record) ==
    IF record.packages.def THEN record.packages.val ELSE <<>>

C25_MergeOnePerVersion ==
    (program = "import" /\ imported.note \notin {"none", "No versions found"}) =>
        LET old == merged.existing
            new == merged.incoming
            out == merged.result
        IN  /\ \A i, k \in DOMAIN out : out[i].version = out[k].version => i = k
            /\ versionsIn(out) = versionsIn(old) \cup versionsIn(new)
            /\ \A i \in DOMAIN out :
                  IF out[i].version \in versionsIn(new)
                  THEN \E k \in DOMAIN new :
                          /\ new[k].version = out[i].version
                          /\ packageList(out[i]) = packageList(new[k])
                  ELSE \E k \in DOMAIN old :
                          /\ old[k].version = out[i].version
                          /\ out[i].packages = old[k].packages

\* A merge with a version in both lists under different packages, a version
\* only in incoming and a version only in existing.
C25_Witness ==
    /\ program = "import"
    /\ imported.note = "Updated existing server in multi-server file"
    /\ \E a, b, c \in versionsIn(merged.result) :
          /\ a \in versionsIn(merged.existing) \cap versionsIn(merged.incoming)
          /\ packageList(lastOf(merged.existing, a))
                # packageList(lastOf(merged.incoming, a))
          /\ b \in versionsIn(merged.incoming) \ versionsIn(merged.existing)
          /\ c \in versionsIn(merged.existing) \ versionsIn(merged.incoming)

\* ------------------------------------------------------------------------
\* C26: importing server S into an existing target file never removes or
\* alters any other server already stored in that file: in a multi-server
\* file S is appended, or replaces only the element named S; in a
\* single-server file holding a different server the result is a multi-server
\* file containing both the original server and S.
C26_ImportKeepsOtherServers ==
    (program = "import" /\ imported.note # "none" /\ priorFile # NoTarget) =>
        LET S == imported.serverName
            before == loadExistingFile(priorFile)
            after == loadExistingFile(outputFile)
        IN  \/ outputFile = priorFile /\ imported.versionsData = <<>>
            \/ /\ before.format = "multi"
               /\ after.format = "multi"
               /\ LET b == priorFile.servers.val
                      a == outputFile.servers.val
                  IN  /\ \A i \in DOMAIN b :
                            a[i] = b[i] \/ (b[i].name = S /\ a[i].name = S)
                      /\ \/ Len(a) = Len(b)
                               /\ \E i \in DOMAIN b : b[i].name = S
                         \/ /\ Len(a) = Len(b) + 1
                            /\ a[Len(a)].name = S
                            /\ \A i \in DOMAIN b : a[i] = b[i]
            \/ /\ before.format = "single"
               /\ priorFile.data.name = S
               /\ after.format = "single"
               /\ outputFile.data.name = S
            \/ /\ before.format = "single"
               /\ priorFile.data.name # S
               /\ after.format = "multi"
               /\ Len(outputFile.servers.val) = 2
               /\ outputFile.servers.val[1] = priorFile.data
               /\ outputFile.servers.val[2].name = S

\* A single-server file of io.example/bar became a two-server file by the
\* import of io.example/foo.
C26_Witness ==
    /\ program = "import"
    /\ priorFile = SingleFile(BarOld)
    /\ imported.serverName = Foo
    /\ imported.note = "Converted to multi-server file"
    /\ outputFile.servers.def

\* ------------------------------------------------------------------------
\* C27: if the remote fetch fails during a poll-triggered update check or
\* refresh, the status endpoint afterwards reports the same ref/commit,
\* last-build time and entry count as before the failure; a later poll whose
\* fetch succeeds and finds a new commit makes the status report the new
\* values.
staticStatus ==
    [commit |-> gitSync.lastCommitHash, lastBuild |-> buildCache.lastBuild]

dynamicStatus ==
    [servers |-> Len(serverCache.servers),
     lastRefresh |-> serverCache.lastRefresh]

C27_FetchFailureKeepsStatus ==
    [][/\ (program = "static" /\ PollTick("fetch"))
          => staticStatus' = staticStatus
       /\ (/\ program = "dynamic"
           /\ waiter.op = "timer"
           /\ pass # NoPass
           /\ pass' = NoPass
           /\ mainPc' = "serving"
           /\ passInfo'.fetchFailed)
          => dynamicStatus' = dynamicStatus
       /\ (/\ program = "static"
           /\ gitSync.lastCommitHash # upstream
           /\ PollTick("none"))
          => staticStatus'.commit = upstream
       /\ (/\ program = "dynamic"
           /\ waiter.op = "timer"
           /\ pass # NoPass
           /\ pass' = NoPass
           /\ mainPc' = "serving"
           /\ ~passInfo'.fetchFailed)
          => /\ dynamicStatus'.lastRefresh = passes
             /\ passInfo'.outcome = "ok"]_vars

\* ------------------------------------------------------------------------
\* C28: in the static server in remote mode, if the upstream branch moves to
\* commit c and then stays there, and fetches and builds attempted from then
\* on succeed, then under fair poll ticks the artifact set built from c
\* eventually becomes live and the marker names c, for every interleaving of
\* the poll that first detects c with other triggers and in-flight builds.
\* (c is the last commit pushed; a behaviour that uses up the build passes
\* counted by the model is left out.)
liveFrom(c) ==
    /\ buildCache.lastCommit = c
    /\ \E b \in built : b.head = c

C28_NewCommitEventuallyLive ==
    (upstream = MaxCommit /\ passes < MaxPasses)
        ~> (liveFrom(MaxCommit) \/ passes = MaxPasses)

\* ------------------------------------------------------------------------
\* C29: every ingestion pass terminates: if the remote never answers a tree
\* or file fetch, the fetch is abandoned after a bounded timeout and treated
\* as a fetch error, so the build-in-progress / refreshing guard is
\* eventually cleared and later triggers are not skipped forever.  No state
\* is reached in which the server waits for the remote without end.
C29_EveryFetchIsAbandoned ==
    mainPc # "blocked"

\* ------------------------------------------------------------------------
\* C30: on a successful build, the last-known-good marker (commit, timestamp)
\* is persisted before the build-in-progress guard is released: there is no
\* reachable state in which the guard is clear after a successful build of
\* commit c while the marker does not yet name c.
C30_MarkerSetWhenGuardClears ==
    [][(program = "static" /\ BuildClose(0) /\ ~isBuilding')
          => /\ buildCache'.lastCommit = child.head
             /\ buildCache'.lastBuild = passes]_vars

\* ------------------------------------------------------------------------
\* C31: handling a GET request (for an artifact, for /_status, or for an
\* unknown path) changes no coordinator state: the live entry set or served
\* artifact directory, the tracked commit, the build/refresh guard and the
\* last-known-good marker are all unchanged by it, and the coordinator that
\* holds them goes on running.
coordinatorState ==
    <<dist, serverCache, gitSync, isBuilding, buildCache, child, pass,
      inFlight, mainPc>>

C31_GetChangesNoCoordinatorState ==
    [][(\/ handleStatus
        \/ \E urlPath \in RequestPaths : HandleGet(urlPath)
        \/ DynamicList
        \/ DynamicStatus)
          => coordinatorState' = coordinatorState]_vars

\* ------------------------------------------------------------------------
\* C32: in the dynamic router, GET /{v0|v0.1}/servers/{ns}/{name}/versions/{v}
\* returns the compatibility envelope of the version whose version string
\* equals v when the entry ns/name is live and has such a version; it
\* returns 404 'Server not found' when no live entry has that identifier and
\* 404 'Version not found' when the entry exists but has no version v.
\* (Stated for version strings; the alias 'latest' has its own rule.)
liveNamed(name) == {j \in 1..Len(entries) : entries[j].name = name}

hasVersion(j, v) ==
    /\ entries[j].versions.def
    /\ \E i \in 1..Len(entries[j].versions.val) :
          entries[j].versions.val[i].version = v

C32_VersionRouteAnswers ==
    [][\A x \in Prefixes, v \in VersionStrings, now \in RequestTimes :
          \A req \in {VersionPath(x, Foo, v), EncodedVersionPath(x, Foo, v)} :
              DynamicGet(req, now) =>
                  /\ stage' # "crashed"
                  /\ IF liveNamed(Foo) = {}
                     THEN answer' = NotFound("Server not found")
                     ELSE IF \E j \in liveNamed(Foo) : hasVersion(j, v)
                     THEN /\ answer'.status = 200
                          /\ \E j \in liveNamed(Foo) :
                                \E i \in 1..Len(entries[j].versions.val) :
                                   /\ entries[j].versions.val[i].version = v
                                   /\ answer'.body = toVSCodeServerFormat(
                                          entries[j],
                                          entries[j].versions.val[i], now)
                     ELSE answer' = NotFound("Version not found")]_vars

\* ------------------------------------------------------------------------
\* C33: after an accepted webhook for the tracked branch announcing a new
\* upstream commit, the clone is brought to the remote head before the
\* rebuild starts: the tracked commit id equals the remote head and the
\* triggered build reads the tree at that new commit.
C33_WebhookBuildsRemoteHead ==
    [][(/\ program = "static"
        /\ isRemote
        /\ \E r \in WebhookRequests : handleWebhook(r, "none")
        /\ passes' = passes + 1)
          => gitSync'.lastCommitHash = upstream]_vars

\* ------------------------------------------------------------------------
\* C34: in the static server, the commit reported by /_status is always the
\* commit whose build output is currently being served: the reported commit
\* changes only when a build of that commit has succeeded.
C34_StatusCommitIsBuilt ==
    (program = "static" /\ isRemote /\ resp.op = "status") =>
        \E b \in built : b.head = resp.commit

\* ------------------------------------------------------------------------
\* C35: in the dynamic server, GET /_status returns a 200 JSON body in every
\* reachable state of the cache, including every state in which
\* serverCache.lastRefresh is null because no refresh pass has succeeded
\* since startup.
C35_StatusAlwaysAnswers ==
    [][DynamicStatus
          => /\ resp'.op = "status"
             /\ resp'.status = 200
             /\ mainPc' = "serving"]_vars

\* C36: in build watch mode at most one call of build() is running at any
\* time: a file-change event that arrives while a pass is running never
\* starts a second pass over the same output directory alongside it.
C36_WatchBuildsNeverOverlap ==
    program = "watch" => Cardinality(running) <= 1

\* ------------------------------------------------------------------------
\* C37: while a poll tick or a manual refresh is fetching from the remote,
\* inbound GET requests can still be handled: in every state in which the
\* running server is inside a fetch, a GET of any path can be answered.
\* (The clone exists, so the fetch is one made by hasUpdates or refresh after
\* start-up.)
C37_GetHandledDuringFetch ==
    (program = "static" /\ mainPc = "blocked" /\ gitSync.lastCommitHash # NoCommit)
        => \A urlPath \in RequestPaths : ENABLED HandleGet(urlPath)

\* ------------------------------------------------------------------------
\* C38: for every request path, paths with '..' segments included,
\* resolveFilePath returns null or a path inside the served dist directory,
\* and the static file handler answers with no file from outside it.
C38_ResolvedPathInsideDist ==
    [][\A urlPath \in RequestPaths :
          HandleGet(urlPath)
              => /\ inDist(resolveFilePath(urlPath, dist))
                 /\ resp'.content # RootContent]_vars

\* ------------------------------------------------------------------------
\* C39: the local normalizer (loadServerFile / normalizeServer) and the
\* remote one (loadServerFileFromGitHub / validateServer) agree on every
\* entry file loaded: both throw or both return, and when they return they
\* return the same canonical entries.
C39_NormalizersAgree ==
    stage \in {"loaded", "built"} =>
        \A i \in 1..Len(rawFiles) :
            loadServerFile(rawFiles[i]) = loadServerFileData(rawFiles[i])

\* ------------------------------------------------------------------------
\* C40: whenever mergeVersions returns a non-empty list, exactly one record
\* has isLatest = true and it is the first one, the list is in descending
\* numeric-aware version order, and merging the same incoming data into the
\* result once more returns the same list.
C40_MergeMarksNewestOnce ==
    (program = "import" /\ merged.result # <<>>) =>
        LET out == merged.result
        IN  /\ {i \in DOMAIN out : out[i].isLatest} = {1}
            /\ \A i, k \in DOMAIN out :
                  i < k => numericRank(out[i].version) > numericRank(out[k].version)
            /\ mergeVersions(out, merged.incoming) = out

\* A merge of three versions in which the record marked latest in the
\* existing list is not the newest of the result.
C40_Witness ==
    /\ program = "import"
    /\ Len(merged.result) >= 3
    /\ merged.incoming # <<>>
    /\ \E i \in DOMAIN merged.existing :
          /\ merged.existing[i].isLatest
          /\ merged.result[1].version # merged.existing[i].version

====
